---- MODULE Spec2Model ----
(***************************************************************************)
(* Model of the ORBIT financial engine (src/services/financial_engine.py). *)
(*                                                                         *)
(* The engine computes on decimal.Decimal values.  A Decimal is modelled   *)
(* as Python stores it: a sign, a coefficient and an exponent, the value   *)
(* being (-1)^s * c * 10^e.  The coefficient is an unbounded natural       *)
(* number (a machine integer of the model checker holds 9 digits, the      *)
(* decimal context 28), so that the arithmetic of the default decimal      *)
(* context is computed exactly.                                            *)
(***************************************************************************)
EXTENDS Integers, Sequences, FiniteSets, TLC

----------------------------------------------------------------------------
(* Natural numbers of any size: sequences of limbs in base 10^4, least      *)
(* significant limb first, without leading zero limbs (the empty sequence   *)
(* is 0).  Carries are resolved by position, not by recursion along the     *)
(* number: the carry into a limb comes from the nearest lower limb that     *)
(* overflows, through limbs that are all at their maximum.                  *)

\* the limb base: the product of two limbs fits a machine integer
Base == 10000

\* decimal digits in a limb
LimbDigits == 4

Pow10(k) == 10 ^ k

NLimb(a, i) == IF i >= 1 /\ i <= Len(a) THEN a[i] ELSE 0

SetMax(S) == CHOOSE x \in S : \A y \in S : y <= x

\* a without its leading zero limbs
NNorm(a) ==
  LET nz == {i \in 1..Len(a) : a[i] # 0}
  IN  IF nz = {} THEN <<>> ELSE SubSeq(a, 1, SetMax(nz))

RECURSIVE NFromInt(_)
NFromInt(n) == IF n = 0 THEN <<>> ELSE <<n % Base>> \o NFromInt(n \div Base)

NLenMax(a, b) == IF Len(a) < Len(b) THEN Len(b) ELSE Len(a)

\* sums of limbs s[1..n], each at most 2 * (Base - 1): the carry out of limb i
NCarry(s, i) ==
  \E j \in 1..i : s[j] >= Base /\ \A k \in (j + 1)..i : s[k] = Base - 1

NAdd(a, b) ==
  LET n == NLenMax(a, b)
      s == [i \in 1..n |-> NLimb(a, i) + NLimb(b, i)]
      r == [i \in 1..n |-> (s[i] + IF NCarry(s, i - 1) THEN 1 ELSE 0) % Base]
  IN  IF NCarry(s, n) THEN r \o <<1>> ELSE r

\* -1, 0 or 1 as a < b, a = b or a > b
NCmp(a, b) ==
  IF Len(a) < Len(b) THEN -1
  ELSE IF Len(a) > Len(b) THEN 1
  ELSE LET df == {i \in 1..Len(a) : a[i] # b[i]}
       IN  IF df = {} THEN 0
           ELSE IF a[SetMax(df)] < b[SetMax(df)] THEN -1 ELSE 1

\* differences of limbs d[1..n]: the borrow out of limb i
NBorrow(d, i) ==
  \E j \in 1..i : d[j] < 0 /\ \A k \in (j + 1)..i : d[k] = 0

\* a - b for a >= b
NSub(a, b) ==
  LET n == Len(a)
      d == [i \in 1..n |-> a[i] - NLimb(b, i)]
  IN  NNorm([i \in 1..n |->
              (d[i] - (IF NBorrow(d, i - 1) THEN 1 ELSE 0) + Base) % Base])

\* a times the m lowest-but-zero limbs: a * Base^m
NShlLimbs(a, m) == IF a = <<>> \/ m <= 0 THEN a ELSE [i \in 1..m |-> 0] \o a

\* a * d for one limb d
NMulLimb(a, d) ==
  IF a = <<>> \/ d = 0 THEN <<>>
  ELSE NAdd([i \in 1..Len(a) |-> (a[i] * d) % Base],
            NNorm(<<0>> \o [i \in 1..Len(a) |-> (a[i] * d) \div Base]))

\* a * b, b the operand taken limb by limb
RECURSIVE NMulBy(_, _)
NMulBy(a, b) ==
  IF b = <<>> THEN <<>>
  ELSE NAdd(NMulLimb(a, Head(b)), NShlLimbs(NMulBy(a, Tail(b)), 1))

NMul(a, b) ==
  IF a = <<>> \/ b = <<>> THEN <<>>
  ELSE IF Len(a) < Len(b) THEN NMulBy(b, a) ELSE NMulBy(a, b)

\* a * 10^k
NShl(a, k) ==
  IF k <= 0 THEN a
  ELSE NShlLimbs(NMulLimb(a, Pow10(k % LimbDigits)), k \div LimbDigits)

\* a \div 10^k
NShr(a, k) ==
  IF k <= 0 THEN a
  ELSE LET q == k \div LimbDigits
           m == k % LimbDigits
           n == Len(a) - q
       IN  IF n <= 0 THEN <<>>
           ELSE NNorm([i \in 1..n |->
                  a[q + i] \div Pow10(m)
                  + (NLimb(a, q + i + 1) % Pow10(m)) * Pow10(LimbDigits - m)])

\* the decimal digit of a at position k, the units being position 1
NDigit(a, k) ==
  (NLimb(a, (k - 1) \div LimbDigits + 1) \div Pow10((k - 1) % LimbDigits)) % 10

\* some decimal digit of a at a position below k is not 0
NAnyBelow(a, k) ==
  \E j \in 1..(k - 1) : j <= LimbDigits * Len(a) /\ NDigit(a, j) # 0

\* the number of decimal digits of a (0 for 0)
NDigits(a) ==
  IF a = <<>> THEN 0
  ELSE LET top == a[Len(a)]
       IN  LimbDigits * (Len(a) - 1)
           + (IF top >= 1000 THEN 4 ELSE IF top >= 100 THEN 3
              ELSE IF top >= 10 THEN 2 ELSE 1)

RECURSIVE NPow2(_)
\* 2^k
NPow2(k) ==
  IF k <= 30 THEN NFromInt(2 ^ k) ELSE NMul(NFromInt(2 ^ 30), NPow2(k - 30))

RECURSIVE NPow5(_)
\* 5^k
NPow5(k) ==
  IF k <= 13 THEN NFromInt(5 ^ k) ELSE NMul(NFromInt(5 ^ 13), NPow5(k - 13))

----------------------------------------------------------------------------
(* decimal.Decimal: [s |-> sign (0 or 1), c |-> coefficient, e |-> exponent] *)
(* as in Decimal.as_tuple().  The engine never changes the decimal context, *)
(* so every arithmetic result is rounded to 28 significant digits, ties to  *)
(* even.                                                                    *)

\* decimal.getcontext().prec of the default context the engine runs under
Prec == 28

\* the exponent of Decimal("0.01"), the quantum of every quantize call
CentExp == -2

Dec(s, c, e) == [s |-> s, c |-> c, e |-> e]

\* Decimal(str(n)) scaled by 10^e, for a machine integer n
DecInt(n, e) == IF n < 0 THEN Dec(1, NFromInt(-n), e) ELSE Dec(0, NFromInt(n), e)

DZero == Dec(0, <<>>, 0)

\* -1, 0, 1: the sign of the value
DSign(a) == IF a.c = <<>> THEN 0 ELSE IF a.s = 1 THEN -1 ELSE 1

DMinExp(a, b) == IF a.e < b.e THEN a.e ELSE b.e

\* the coefficient of a when written with exponent e <= a.e
DCoefAt(a, e) == NShl(a.c, a.e - e)

\* -1, 0, 1 as a < b, a = b, a > b (comparison of values, as Decimal.__lt__ etc.)
DCmp(a, b) ==
  LET sa == DSign(a)
      sb == DSign(b)
      e  == DMinExp(a, b)
  IN  IF sa # sb THEN (IF sa < sb THEN -1 ELSE 1)
      ELSE IF sa = 0 THEN 0
      ELSE sa * NCmp(DCoefAt(a, e), DCoefAt(b, e))

DLt(a, b) == DCmp(a, b) < 0
DLe(a, b) == DCmp(a, b) <= 0
DGt(a, b) == DCmp(a, b) > 0

\* rounding of an exact result to the context precision, ROUND_HALF_EVEN
DRound(a) ==
  LET n == NDigits(a.c)
  IN  IF n <= Prec THEN a
      ELSE LET drop == n - Prec
               high == NShr(a.c, drop)
               r    == NDigit(a.c, drop)
               up   == r > 5 \/ (r = 5 /\ (NAnyBelow(a.c, drop) \/ high[1] % 2 = 1))
               h2   == IF up THEN NAdd(high, <<1>>) ELSE high
           IN  IF NDigits(h2) > Prec THEN Dec(a.s, NShr(h2, 1), a.e + drop + 1)
               ELSE Dec(a.s, h2, a.e + drop)

DNeg(a) == Dec(1 - a.s, a.c, a.e)

DAddExact(a, b) ==
  LET e  == DMinExp(a, b)
      ma == DCoefAt(a, e)
      mb == DCoefAt(b, e)
  IN  IF a.s = b.s THEN Dec(a.s, NAdd(ma, mb), e)
      ELSE LET k == NCmp(ma, mb)
           IN  IF k = 0 THEN Dec(0, <<>>, e)
               ELSE IF k > 0 THEN Dec(a.s, NSub(ma, mb), e)
               ELSE Dec(b.s, NSub(mb, ma), e)

DMulExact(a, b) ==
  Dec(IF a.s = b.s THEN 0 ELSE 1, NMul(a.c, b.c), a.e + b.e)

\* Decimal.__add__, __sub__, __mul__
DAdd(a, b) == DRound(DAddExact(a, b))
DSub(a, b) == DRound(DAddExact(a, DNeg(b)))
DMul(a, b) == DRound(DMulExact(a, b))

\* x.quantize(Decimal("0.01"), ROUND_HALF_UP)
Quantize(a) ==
  IF a.e >= CentExp THEN Dec(a.s, NShl(a.c, a.e - CentExp), CentExp)
  ELSE LET drop == CentExp - a.e
           high == NShr(a.c, drop)
       IN  Dec(a.s,
               IF NDigit(a.c, drop) >= 5 THEN NAdd(high, <<1>>) ELSE high,
               CentExp)

\* the builtins min(a, b) and max(a, b) on Decimals: the first argument
\* unless the second is strictly smaller (greater)
PyMin(a, b) == IF DLt(b, a) THEN b ELSE a
PyMax(a, b) == IF DGt(b, a) THEN b ELSE a

----------------------------------------------------------------------------
(* Binary floating point.  The solver leaves Decimal three times: in        *)
(* math.ceil(float(divida / pagamento)), in math.log(1 - float(x)) and in   *)
(* math.log(1 + float(taxa)).  A double has a 53-bit significand and        *)
(* rounds to nearest, ties to even; what the model keeps of it is where     *)
(* that rounding changes the integer the solver goes on with.  The ratios   *)
(* are taken exactly, as num/den of two positive Decimals.                  *)

\* the significand width of a double (IEEE 754 binary64), behind float()
FloatBits == 53

\* num / den <= 2^-k
RatioLePow2Neg(num, den, k) ==
  DCmp(DMulExact(num, Dec(0, NPow2(k), 0)), den) <= 0

RECURSIVE Log2Floor(_)
Log2Floor(k) == IF k < 2 THEN 0 ELSE 1 + Log2Floor(k \div 2)

\* 1 + float(t) == 1.0: t is at most half the spacing of the doubles above 1
FloatOnePlusIsOne(t) == RatioLePow2Neg(t, DecInt(1, 0), FloatBits)

\* 1 - float(num / den) == 1.0: the ratio is at most half the spacing of the
\* doubles below 1
FloatOneMinusIsOne(num, den) == RatioLePow2Neg(num, den, FloatBits + 1)

\* float(num / den) == 1.0 for a ratio below 1: it is within half a spacing of 1
FloatIsOne(num, den) ==
  RatioLePow2Neg(DAddExact(den, DNeg(num)), den, FloatBits + 1)

----------------------------------------------------------------------------
(* Results of a call: a returned value, or the exception raised.           *)

Return(v) == [exc |-> "", value |-> v]
Raise(exc, msg) == [exc |-> exc, msg |-> msg]
Raised(r) == r.exc # ""

\* the longest payoff horizon the model follows; inputs that need more
\* months are not drawn
MaxMeses == 16

\* timedelta(days=meses * 30): the engine's month
DiasPorMes == 30

\* the greatest k in 0..MaxMeses+1 with k * pagamento <= divida
RECURSIVE PagamentosInteiros(_, _, _)
PagamentosInteiros(divida, pagamento, k) ==
  IF k > MaxMeses THEN k
  ELSE IF DGt(DMulExact(DecInt(k + 1, 0), pagamento), divida) THEN k
  ELSE PagamentosInteiros(divida, pagamento, k + 1)

\* math.ceil(float(divida / pagamento)), line 153.  With k whole payments in
\* the debt and a remainder, the quotient lies between k and k + 1; float()
\* returns k itself when the quotient is within half a spacing of the doubles
\* at k (2^(Log2Floor(k) - 52)), and ceil then gives k instead of k + 1.
CeilFloat(divida, pagamento, k, resto) ==
  IF DSign(resto) = 0 THEN k
  ELSE IF k >= 1 /\ RatioLePow2Neg(resto, pagamento, FloatBits - Log2Floor(k))
       THEN k
  ELSE k + 1

\* divida less k payments
Resto(divida, pagamento, k) ==
  DAddExact(divida, DNeg(DMulExact(DecInt(k, 0), pagamento)))

CeilFloatAt(divida, pagamento, k) ==
  CeilFloat(divida, pagamento, k, Resto(divida, pagamento, k))

CeilFloatDiv(divida, pagamento) ==
  CeilFloatAt(divida, pagamento, PagamentosInteiros(divida, pagamento, 0))

\* A variant of MesesPrice that takes the logarithm of the interest's share
\* of the payment instead of that of the rest of it: the months then grow
\* with the payment.
RECURSIVE MesesPriceJuros(_, _, _, _, _)
MesesPriceJuros(folga, pagamento, fator, pot, n) ==
  IF n > MaxMeses THEN n
  ELSE IF DCmp(DMulExact(pot, DAddExact(pagamento, DNeg(folga))), pagamento) >= 0
       THEN n
  ELSE MesesPriceJuros(folga, pagamento, fator, DMulExact(pot, fator), n + 1)

\* The least n in 1..MaxMeses+1 with (1 + taxa)^n * (pagamento - divida*taxa)
\* >= pagamento, that is ceil(-log(1 - divida*taxa/pagamento) / log(1 + taxa))
\* of lines 175-178 taken over the reals; pot is (1 + taxa)^n.
RECURSIVE MesesPrice(_, _, _, _, _)
MesesPrice(folga, pagamento, fator, pot, n) ==
  IF n > MaxMeses THEN n
  ELSE IF DCmp(DMulExact(pot, folga), pagamento) >= 0 THEN n
  ELSE MesesPrice(folga, pagamento, fator, DMulExact(pot, fator), n + 1)

\* TRUE, once v is evaluated.  TLC evaluates the argument of an operator when
\* it is first used; a loop of the engine is eager, and its state is evaluated
\* at every turn, which also keeps one turn from being evaluated inside the
\* next.
Eager(v) == v = v

\* lines 189-190: the state after a month, given its interest, its
\* amortization and the balance it leaves
MesFechado(st, pagamento, juros_mes, amortizacao, saldo) ==
  [saldo       |-> saldo,
   juros_total |-> DAdd(st.juros_total, juros_mes),
   total_pago  |-> DAdd(st.total_pago,
                        IF DGt(saldo, DZero) THEN pagamento
                        ELSE DAdd(amortizacao, juros_mes))]

\* line 188: saldo = max(0, saldo - amortizacao)
MesAmortizado(st, pagamento, juros_mes, amortizacao) ==
  MesFechado(st, pagamento, juros_mes, amortizacao,
             PyMax(DZero, DSub(st.saldo, amortizacao)))

\* line 187: amortizacao = min(pagamento - juros_mes, saldo)
Mes(st, pagamento, juros_mes) ==
  MesAmortizado(st, pagamento, juros_mes,
                PyMin(DSub(pagamento, juros_mes), st.saldo))

\* lines 185-190: the month-by-month simulation, n months from the state st;
\* line 186: juros_mes = saldo * taxa
RECURSIVE Amortizar(_, _, _, _)
Amortizar(st, pagamento, taxa, n) ==
  IF Eager(st) /\ n = 0 THEN st
  ELSE Amortizar(Mes(st, pagamento, DMul(st.saldo, taxa)), pagamento, taxa, n - 1)

DebtProjection(debt_total, monthly_payment, interest_rate, months_to_payoff, payoff_date, total_interest_paid, total_amount_paid) ==
  [debt_total          |-> debt_total,
   monthly_payment     |-> monthly_payment,
   interest_rate       |-> interest_rate,
   months_to_payoff    |-> months_to_payoff,
   payoff_date         |-> payoff_date,
   total_interest_paid |-> total_interest_paid,
   total_amount_paid   |-> total_amount_paid]

\* A variant of Projecao whose payoff date is the start date plus meses
\* days, the 30 days of a month left out.
ProjecaoSemMes(divida, pagamento, taxa, data_inicio, meses, fim) ==
  Return(DebtProjection(
    Quantize(divida), Quantize(pagamento), taxa, meses,
    data_inicio + meses,
    Quantize(fim.juros_total), Quantize(fim.total_pago)))

\* lines 194-202: the projection, after meses months ending in the state fim
Projecao(divida, pagamento, taxa, data_inicio, meses, fim) ==
  Return(DebtProjection(
    Quantize(divida), Quantize(pagamento), taxa, meses,
    data_inicio + meses * DiasPorMes,
    Quantize(fim.juros_total), Quantize(fim.total_pago)))

\* lines 180-202: the simulation of meses months and its projection
Simular(divida, pagamento, taxa, data_inicio, meses) ==
  Projecao(divida, pagamento, taxa, data_inicio, meses,
           Amortizar([saldo |-> divida, juros_total |-> DZero,
                      total_pago |-> DZero], pagamento, taxa, meses))

\* lines 175-178, with juros = divida * taxa: the closed form of the months.
\* The errors are those of math.log on 0.0 and of a division by log(1.0).
Fechada(divida, pagamento, taxa, data_inicio, juros) ==
  IF FloatIsOne(juros, pagamento)
  THEN Raise("ValueError", "math domain error")
  ELSE IF FloatOnePlusIsOne(taxa)
  THEN (IF FloatOneMinusIsOne(juros, pagamento)
        THEN Raise("InvalidOperation", "DivisionUndefined")
        ELSE Raise("DivisionByZero", "DivisionByZero"))
  ELSE Simular(divida, pagamento, taxa, data_inicio,
               IF FloatOneMinusIsOne(juros, pagamento) THEN 0
               ELSE MesesPrice(DAddExact(pagamento, DNeg(juros)), pagamento,
                               DAddExact(DecInt(1, 0), taxa),
                               DAddExact(DecInt(1, 0), taxa), 1))

\* lines 173-202: the path of a positive rate and a payment above the interest
QuitacaoPrice(divida, pagamento, taxa, data_inicio) ==
  Fechada(divida, pagamento, taxa, data_inicio, DMulExact(divida, taxa))

\* lines 152-163: the path of a rate that is not positive, taking meses months
SemJuros(divida, pagamento, taxa, data_inicio, meses) ==
  Return(DebtProjection(divida, pagamento, taxa, meses,
                        data_inicio + meses * DiasPorMes, DZero, divida))

\* A variant of calcular_data_quitacao that takes the path of a rate that is
\* not positive before it validates the amounts.
calcular_data_quitacao_taxa_primeiro(divida, pagamento, taxa, data_inicio) ==
  IF DLe(taxa, DZero)
  THEN SemJuros(divida, pagamento, taxa, data_inicio,
                CeilFloatDiv(divida, pagamento))
  ELSE IF DLe(divida, DZero)
  THEN Raise("ValueError", "Divida deve ser maior que zero")
  ELSE IF DLe(pagamento, DZero)
  THEN Raise("ValueError", "Pagamento deve ser maior que zero")
  ELSE IF DLe(pagamento, DMul(divida, taxa))
  THEN Raise("ValueError", "Pagamento nao cobre os juros mensais")
  ELSE QuitacaoPrice(divida, pagamento, taxa, data_inicio)

\* FinancialEngine.calcular_data_quitacao; data_inicio is already the start
\* date in use (line 143), a day number
calcular_data_quitacao(divida, pagamento, taxa, data_inicio) ==
  IF DLe(divida, DZero)
  THEN Raise("ValueError", "Divida deve ser maior que zero")
  ELSE IF DLe(pagamento, DZero)
  THEN Raise("ValueError", "Pagamento deve ser maior que zero")
  ELSE IF DLe(taxa, DZero)
  THEN SemJuros(divida, pagamento, taxa, data_inicio,
                CeilFloatDiv(divida, pagamento))
  ELSE IF DLe(pagamento, DMul(divida, taxa))
  THEN Raise("ValueError", "Pagamento nao cobre os juros mensais")
  ELSE QuitacaoPrice(divida, pagamento, taxa, data_inicio)

\* What one run of the solver did, for the record of an operation: its
\* arguments, the exception it raised ("" if none), the months it returned
\* and the number of turns of the loop of lines 185-190 it made (none on the
\* paths that return or raise before the loop).
Chamada(divida, pagamento, taxa, r) ==
  [divida    |-> divida,
   pagamento |-> pagamento,
   taxa      |-> taxa,
   exc       |-> r.exc,
   meses     |-> IF Raised(r) THEN 0 ELSE r.value.months_to_payoff,
   voltas    |-> IF Raised(r) \/ DLe(taxa, DZero) THEN 0
                 ELSE r.value.months_to_payoff]

----------------------------------------------------------------------------
(* The values put in the reports.  float(d) of a Decimal is the double      *)
(* nearest to it, ties to the even significand: with q the power of two of  *)
(* the last of the 53 bits, the significand is d / 2^q rounded to a whole   *)
(* number.  The double is kept as the Decimal of its exact value, without   *)
(* trailing zeros (60, 60.0 and 60.00 are one float; 0.004 is not a         *)
(* double, and its float is a little above it).  The amounts of the engine  *)
(* are far from the ends of the range of the doubles.                       *)

SetMin(S) == CHOOSE x \in S : \A y \in S : x <= y

NTrailingZeros(a) ==
  IF a = <<>> THEN 0
  ELSE SetMin({k \in 1..(LimbDigits * Len(a)) : NDigit(a, k) # 0}) - 1

\* a / 10^t rounded to a whole number, ties to even
NRoundHalfEven(a, t) ==
  IF t <= 0 THEN a
  ELSE LET q    == NShr(a, t)
           half == NDigit(a, t)
           up   == \/ half > 5
                   \/ half = 5 /\ (NAnyBelow(a, t) \/ NLimb(q, 1) % 2 = 1)
       IN  IF up THEN NAdd(q, <<1>>) ELSE q

\* c * 10^e / 2^q as the quotient a / 10^t of a natural number by a power
\* of ten (a division by 2^q is one by 10^q of 5^q times as much)
FloatScaled(c, e, q) ==
  LET ee == IF q < 0 THEN e ELSE e - q
  IN  [a |-> NShl(NMul(c, IF q < 0 THEN NPow2(-q) ELSE NPow5(q)),
                  IF ee > 0 THEN ee ELSE 0),
       t |-> IF ee < 0 THEN -ee ELSE 0]

\* a / 10^t < 2^53
FloatBelow(x) == NCmp(x.a, NShl(NPow2(FloatBits), x.t)) < 0

\* c * 10^e / 2^q < 2^53
FloatFits(c, e, q) == FloatBelow(FloatScaled(c, e, q))

RECURSIVE FloatExp(_, _, _)
\* the least q from q on with c * 10^e / 2^q < 2^53
FloatExp(c, e, q) == IF FloatFits(c, e, q) THEN q ELSE FloatExp(c, e, q + 1)

\* a whole number not above log2(c * 10^e), from the count of its digits
\* (3.321 < log2(10) < 3.322)
Log2Lower(c, e) ==
  LET l == NDigits(c) + e - 1
  IN  IF l >= 0 THEN (l * 3321) \div 1000
      ELSE -(((-l) * 3322 + 999) \div 1000)

\* a / 10^t rounded to a whole number
FloatRounded(x) == NRoundHalfEven(x.a, x.t)

\* v without the trailing zeros of its coefficient
DStrip(v) ==
  LET z == NTrailingZeros(v.c) IN Dec(v.s, NShr(v.c, z), v.e + z)

\* the double of sign s and significand m at the power q of two
FloatValue(s, m, q) ==
  DStrip(IF q < 0 THEN Dec(s, NMul(m, NPow5(-q)), q)
         ELSE Dec(s, NMul(m, NPow2(q)), 0))

\* the double nearest to d, with q the power of two of its last bit
FloatAt(d, q) == FloatValue(d.s, FloatRounded(FloatScaled(d.c, d.e, q)), q)

\* float(d), lines 235-237 and 427-440
PyFloat(d) ==
  IF d.c = <<>> THEN Dec(d.s, <<>>, 0)
  ELSE FloatAt(d, FloatExp(d.c, d.e, Log2Lower(d.c, d.e) - (FloatBits - 1)))

\* datetime.strftime("%B %Y") on a day number (day 1 is 0001-01-01): the
\* month and the year of the proleptic Gregorian calendar, as <<month, year>>
MesAno(dia) ==
  LET n0   == dia - 1
      n400 == n0 \div 146097
      r400 == n0 % 146097
      n100 == r400 \div 36524
      r100 == r400 % 36524
      n4   == r100 \div 1461
      r4   == r100 % 1461
      n1   == r4 \div 365
      n    == r4 % 365
      year == n400 * 400 + n100 * 100 + n4 * 4 + n1 + 1
      leap == n1 = 3 /\ (n4 # 24 \/ n100 = 3)
      antes == <<0, 31, 59, 90, 120, 151, 181, 212, 243, 273, 304, 334>>
      Antes(m) == antes[m] + (IF m > 2 /\ leap THEN 1 ELSE 0)
      m0   == (n + 50) \div 32
      month == IF Antes(m0) > n THEN m0 - 1 ELSE m0
  IN  IF n1 = 4 \/ n100 = 4 THEN <<12, year - 1>> ELSE <<month, year>>

\* An operation's outcome together with the runs of the solver it made
Feito(res, chamadas) == [res |-> res, chamadas |-> chamadas]

----------------------------------------------------------------------------
(* Impact of a new expense                                                  *)

\* format(x, ".2f") of a double x, lines 254-262: its exact value rounded to
\* cents, ties to even
Fmt2f(x) ==
  IF x.e >= CentExp THEN Dec(x.s, NShl(x.c, x.e - CentExp), CentExp)
  ELSE Dec(x.s, NRoundHalfEven(x.c, CentExp - x.e), CentExp)

\* A variant of MensagemImpacto whose mild warning stops a day early, at
\* dias < 3.
MensagemImpactoAteDois(gasto, dias, custo) ==
  IF dias = 0 THEN [modelo |-> "safe", gasto |-> Fmt2f(gasto)]
  ELSE IF dias < 3
  THEN [modelo |-> "ai_nao", gasto |-> Fmt2f(gasto), dias |-> dias]
  ELSE IF dias <= 7
  THEN [modelo |-> "uma_semana", gasto |-> Fmt2f(gasto), custo |-> Fmt2f(custo)]
  ELSE IF dias <= 30
  THEN [modelo |-> "eita", dias |-> dias, custo |-> Fmt2f(custo)]
  ELSE [modelo |-> "serio", gasto |-> Fmt2f(gasto), dias |-> dias,
        custo |-> Fmt2f(custo)]

\* lines 253-262: the sentence chosen by the number of days, with the
\* amounts and the days printed in it
MensagemImpacto(gasto, dias, custo) ==
  IF dias = 0 THEN [modelo |-> "safe", gasto |-> Fmt2f(gasto)]
  ELSE IF dias <= 3
  THEN [modelo |-> "ai_nao", gasto |-> Fmt2f(gasto), dias |-> dias]
  ELSE IF dias <= 7
  THEN [modelo |-> "uma_semana", gasto |-> Fmt2f(gasto), custo |-> Fmt2f(custo)]
  ELSE IF dias <= 30
  THEN [modelo |-> "eita", dias |-> dias, custo |-> Fmt2f(custo)]
  ELSE [modelo |-> "serio", gasto |-> Fmt2f(gasto), dias |-> dias,
        custo |-> Fmt2f(custo)]

\* FinancialEngine._gerar_mensagem_impacto; lines 250-251 take the floats of
\* the two amounts
gerar_mensagem_impacto(gasto, dias, custo_real) ==
  MensagemImpacto(PyFloat(gasto), dias, PyFloat(custo_real))

\* A variant of DiasAdicionais that counts one day for a month.
DiasAdicionaisUmPorMes(meses_adicionais) == meses_adicionais

\* line 230: dias_adicionais = meses_adicionais * 30
DiasAdicionais(meses_adicionais) == meses_adicionais * DiasPorMes

\* A variant of ImpactoRelatorio whose real cost leaves the added interest
\* out.
ImpactoRelatorioSemJuros(proj_atual, proj_nova, novo_gasto) ==
  LET meses_adicionais == proj_nova.months_to_payoff - proj_atual.months_to_payoff
      dias_adicionais  == DiasAdicionais(meses_adicionais)
      juros_adicionais == DSub(proj_nova.total_interest_paid,
                               proj_atual.total_interest_paid)
  IN  [gasto_original       |-> PyFloat(novo_gasto),
       custo_real           |-> PyFloat(Quantize(novo_gasto)),
       juros_adicionais     |-> PyFloat(Quantize(juros_adicionais)),
       dias_adicionais      |-> dias_adicionais,
       meses_adicionais     |-> meses_adicionais,
       data_quitacao_antiga |-> MesAno(proj_atual.payoff_date),
       data_quitacao_nova   |-> MesAno(proj_nova.payoff_date),
       mensagem_coach       |-> gerar_mensagem_impacto(novo_gasto, dias_adicionais,
                                                      novo_gasto)]

\* lines 229-245: the report, once both projections exist
ImpactoRelatorio(proj_atual, proj_nova, novo_gasto) ==
  LET meses_adicionais == proj_nova.months_to_payoff - proj_atual.months_to_payoff
      dias_adicionais  == DiasAdicionais(meses_adicionais)
      juros_adicionais == DSub(proj_nova.total_interest_paid,
                               proj_atual.total_interest_paid)
      custo_real       == DAdd(novo_gasto, juros_adicionais)
  IN  [gasto_original       |-> PyFloat(novo_gasto),
       custo_real           |-> PyFloat(Quantize(custo_real)),
       juros_adicionais     |-> PyFloat(Quantize(juros_adicionais)),
       dias_adicionais      |-> dias_adicionais,
       meses_adicionais     |-> meses_adicionais,
       data_quitacao_antiga |-> MesAno(proj_atual.payoff_date),
       data_quitacao_nova   |-> MesAno(proj_nova.payoff_date),
       mensagem_coach       |-> gerar_mensagem_impacto(novo_gasto, dias_adicionais,
                                                      custo_real)]

\* lines 218-245, given the two projections (the second run is reached
\* only when the first returns)
Impacto(divida_atual, pagamento_mensal, taxa_mensal, novo_gasto, nova_divida, proj_atual, proj_nova) ==
  IF Raised(proj_atual)
  THEN Feito(proj_atual,
             <<Chamada(divida_atual, pagamento_mensal, taxa_mensal, proj_atual)>>)
  ELSE Feito(IF Raised(proj_nova) THEN proj_nova
             ELSE Return(ImpactoRelatorio(proj_atual.value, proj_nova.value,
                                          novo_gasto)),
             <<Chamada(divida_atual, pagamento_mensal, taxa_mensal, proj_atual),
               Chamada(nova_divida, pagamento_mensal, taxa_mensal, proj_nova)>>)

\* lines 223-227: the second projection, on the debt with the expense
ImpactoNovaDivida(divida_atual, pagamento_mensal, taxa_mensal, novo_gasto, agora, nova_divida) ==
  Impacto(divida_atual, pagamento_mensal, taxa_mensal, novo_gasto, nova_divida,
          calcular_data_quitacao(divida_atual, pagamento_mensal, taxa_mensal, agora),
          calcular_data_quitacao(nova_divida, pagamento_mensal, taxa_mensal, agora))

\* FinancialEngine.calcular_impacto_gasto; agora is datetime.now(), the start
\* date both runs of the solver take
calcular_impacto_gasto(divida_atual, pagamento_mensal, taxa_mensal, novo_gasto, agora) ==
  ImpactoNovaDivida(divida_atual, pagamento_mensal, taxa_mensal, novo_gasto, agora,
                    DAdd(divida_atual, novo_gasto))

-----
(* "What if" scenarios                                                      *)

\* FinancialEngine._gerar_mensagem_simulacao: the sentence chosen by the kind
\* of scenario, with the months it prints
gerar_mensagem_simulacao(tipo, meses) ==
  IF tipo = "vender_algo" THEN [modelo |-> "vender_algo", meses |-> meses]
  ELSE IF tipo = "aumentar_pagamento" THEN [modelo |-> "aumentar_pagamento", meses |-> meses]
  ELSE IF tipo = "renda_extra" THEN [modelo |-> "renda_extra", meses |-> meses]
  ELSE [modelo |-> "generica", meses |-> meses]

\* lines 405-410: the debt the scenario leaves
NovaDivida(divida_atual, cenario) ==
  IF cenario.tipo = "vender_algo" \/ cenario.tipo = "renda_extra"
  THEN PyMax(DecInt(0, 0), DSub(divida_atual, cenario.valor))
  ELSE divida_atual

\* lines 407-408: the payment the scenario leaves
NovoPagamento(pagamento_atual, cenario) ==
  IF cenario.tipo = "aumentar_pagamento"
  THEN DAdd(pagamento_atual, cenario.valor)
  ELSE pagamento_atual

\* A variant of CenarioRelatorio that reports the whole baseline as the
\* savings, as the report of a debt paid off does.
CenarioRelatorioSemDiferenca(cenario, divida_atual, proj_atual, nova_divida, proj_nova) ==
  [cenario  |-> cenario,
   atual    |-> [divida            |-> PyFloat(divida_atual),
                 meses_para_quitar |-> proj_atual.months_to_payoff,
                 data_quitacao     |-> MesAno(proj_atual.payoff_date),
                 juros_total       |-> PyFloat(proj_atual.total_interest_paid)],
   simulado |-> [nova_divida       |-> PyFloat(nova_divida),
                 meses_para_quitar |-> proj_nova.months_to_payoff,
                 data_quitacao     |-> MesAno(proj_nova.payoff_date),
                 juros_total       |-> PyFloat(proj_nova.total_interest_paid)],
   economia |-> [meses |-> proj_atual.months_to_payoff,
                 juros |-> PyFloat(Quantize(proj_atual.total_interest_paid))],
   mensagem |-> gerar_mensagem_simulacao(cenario.tipo, proj_atual.months_to_payoff)]

\* lines 417-418 and 424-443: the report with a second projection
CenarioRelatorio(cenario, divida_atual, proj_atual, nova_divida, proj_nova) ==
  LET economia_meses == proj_atual.months_to_payoff - proj_nova.months_to_payoff
      economia_juros == DSub(proj_atual.total_interest_paid,
                             proj_nova.total_interest_paid)
  IN  [cenario  |-> cenario,
       atual    |-> [divida            |-> PyFloat(divida_atual),
                     meses_para_quitar |-> proj_atual.months_to_payoff,
                     data_quitacao     |-> MesAno(proj_atual.payoff_date),
                     juros_total       |-> PyFloat(proj_atual.total_interest_paid)],
       simulado |-> [nova_divida       |-> PyFloat(nova_divida),
                     meses_para_quitar |-> proj_nova.months_to_payoff,
                     data_quitacao     |-> MesAno(proj_nova.payoff_date),
                     juros_total       |-> PyFloat(proj_nova.total_interest_paid)],
       economia |-> [meses |-> economia_meses,
                     juros |-> PyFloat(Quantize(economia_juros))],
       mensagem |-> gerar_mensagem_simulacao(cenario.tipo, economia_meses)]

\* lines 419-443: the report when the scenario leaves no debt
CenarioQuitado(cenario, divida_atual, proj_atual, nova_divida) ==
  [cenario  |-> cenario,
   atual    |-> [divida            |-> PyFloat(divida_atual),
                 meses_para_quitar |-> proj_atual.months_to_payoff,
                 data_quitacao     |-> MesAno(proj_atual.payoff_date),
                 juros_total       |-> PyFloat(proj_atual.total_interest_paid)],
   simulado |-> [nova_divida       |-> PyFloat(nova_divida),
                 meses_para_quitar |-> 0,
                 data_quitacao     |-> "QUITADO!",
                 juros_total       |-> DecInt(0, 0)],
   economia |-> [meses |-> proj_atual.months_to_payoff,
                 juros |-> PyFloat(Quantize(proj_atual.total_interest_paid))],
   mensagem |-> gerar_mensagem_simulacao(cenario.tipo, proj_atual.months_to_payoff)]

\* A variant of Simulacao that runs the solver on the transformed debt
\* whatever is left of it.
SimulacaoSemAtalho(divida_atual, pagamento_atual, taxa_mensal, cenario, nova_divida, novo_pagamento, proj_atual, proj_nova) ==
  IF Raised(proj_atual)
  THEN Feito(proj_atual,
             <<Chamada(divida_atual, pagamento_atual, taxa_mensal, proj_atual)>>)
  ELSE Feito(IF Raised(proj_nova) THEN proj_nova
             ELSE Return(CenarioRelatorio(cenario, divida_atual, proj_atual.value,
                                          nova_divida, proj_nova.value)),
             <<Chamada(divida_atual, pagamento_atual, taxa_mensal, proj_atual),
               Chamada(nova_divida, novo_pagamento, taxa_mensal, proj_nova)>>)

\* lines 413-443, given the transformed debt and payment and the two
\* projections (the second run is reached only with a debt left)
Simulacao(divida_atual, pagamento_atual, taxa_mensal, cenario, nova_divida, novo_pagamento, proj_atual, proj_nova) ==
  IF Raised(proj_atual)
  THEN Feito(proj_atual,
             <<Chamada(divida_atual, pagamento_atual, taxa_mensal, proj_atual)>>)
  ELSE IF ~DGt(nova_divida, DZero)
  THEN Feito(Return(CenarioQuitado(cenario, divida_atual, proj_atual.value,
                                   nova_divida)),
             <<Chamada(divida_atual, pagamento_atual, taxa_mensal, proj_atual)>>)
  ELSE Feito(IF Raised(proj_nova) THEN proj_nova
             ELSE Return(CenarioRelatorio(cenario, divida_atual, proj_atual.value,
                                          nova_divida, proj_nova.value)),
             <<Chamada(divida_atual, pagamento_atual, taxa_mensal, proj_atual),
               Chamada(nova_divida, novo_pagamento, taxa_mensal, proj_nova)>>)

\* lines 394-416: the two runs of the solver
SimulacaoTransformada(divida_atual, pagamento_atual, taxa_mensal, cenario, agora, nova_divida, novo_pagamento) ==
  Simulacao(divida_atual, pagamento_atual, taxa_mensal, cenario, nova_divida,
            novo_pagamento,
            calcular_data_quitacao(divida_atual, pagamento_atual, taxa_mensal, agora),
            calcular_data_quitacao(nova_divida, novo_pagamento, taxa_mensal, agora))

\* FinancialEngine.simular_cenario; cenario is [tipo, valor], agora is
\* datetime.now()
simular_cenario(divida_atual, pagamento_atual, taxa_mensal, cenario, agora) ==
  SimulacaoTransformada(divida_atual, pagamento_atual, taxa_mensal, cenario, agora,
                        NovaDivida(divida_atual, cenario),
                        NovoPagamento(pagamento_atual, cenario))

-----
(* Behavioural score.  The history is a sequence of [tipo, valor,           *)
(* categoria] with whole amounts.  A factor that the code computes by a     *)
(* division is kept as the fraction [n, d] with d > 0; on totals below 25   *)
(* the doubles of lines 300-328 truncate to the same integers as these      *)
(* fractions do.                                                            *)

Abs(x) == IF x < 0 THEN -x ELSE x

Frac(n, d) == [n |-> n, d |-> d]

\* int(x) of a fraction that is not negative
FracInt(x) == x.n \div x.d

\* A variant of Clamp100 that leaves a factor as it is, below 0 or above 100.
SemClamp(x) == x

\* min(100, max(0, x)), lines 302 and 318
Clamp100(x) ==
  IF x.n < 0 THEN Frac(0, 1)
  ELSE IF x.n > 100 * x.d THEN Frac(100, 1)
  ELSE x

FracLt(x, k) == x.n < k * x.d

\* str.lower() on the categories in use
Lower(c) ==
  IF c = "Delivery" THEN "delivery"
  ELSE IF c = "LAZER" THEN "lazer"
  ELSE c

\* line 310
categorias_superfluas == {"delivery", "streaming", "jogos", "luxo", "lazer"}

RECURSIVE total_receita(_)
\* line 297: sum(t["valor"] for t in h if t["tipo"] == "receita")
total_receita(h) ==
  IF h = <<>> THEN 0
  ELSE (IF Head(h).tipo = "receita" THEN Head(h).valor ELSE 0)
       + total_receita(Tail(h))

RECURSIVE total_despesa(_)
\* line 298: sum(abs(t["valor"]) for t in h if t["tipo"] == "despesa")
total_despesa(h) ==
  IF h = <<>> THEN 0
  ELSE (IF Head(h).tipo = "despesa" THEN Abs(Head(h).valor) ELSE 0)
       + total_despesa(Tail(h))

RECURSIVE gastos_superfluo(_)
\* lines 311-314: sum(abs(t["valor"])) over the superfluous categories,
\* incomes included
gastos_superfluo(h) ==
  IF h = <<>> THEN 0
  ELSE (IF Lower(Head(h).categoria) \in categorias_superfluas
        THEN Abs(Head(h).valor) ELSE 0)
       + gastos_superfluo(Tail(h))

\* A variant of gerar_dicas_score whose rules exclude one another: the first
\* that holds gives the only tip.
gerar_dicas_score_uma_so(score, relacao, controle) ==
  IF score < 500 THEN <<"foco_total">>
  ELSE IF FracLt(relacao, 50) THEN <<"despesas_maiores">>
  ELSE IF FracLt(controle, 50) THEN <<"muito_lazer">>
  ELSE IF score >= 700 THEN <<"mandou_bem">>
  ELSE <<"caminho_certo">>

\* FinancialEngine._gerar_dicas_score
gerar_dicas_score(score, relacao, controle) ==
  LET dicas == (IF score < 500 THEN <<"foco_total">> ELSE <<>>)
               \o (IF FracLt(relacao, 50) THEN <<"despesas_maiores">> ELSE <<>>)
               \o (IF FracLt(controle, 50) THEN <<"muito_lazer">> ELSE <<>>)
               \o (IF score >= 700 THEN <<"mandou_bem">> ELSE <<>>)
  IN  IF dicas = <<>> THEN <<"caminho_certo">> ELSE dicas

\* A variant of Nivel whose "Bom" starts at the 700 of the tips (line 368)
\* instead of 650.
NivelPelasDicas(score_final) ==
  IF score_final >= 800 THEN "Excelente"
  ELSE IF score_final >= 700 THEN "Bom"
  ELSE IF score_final >= 500 THEN "Regular"
  ELSE IF score_final >= 350 THEN "Atencao"
  ELSE "Critico"

\* lines 331-340
Nivel(score_final) ==
  IF score_final >= 800 THEN "Excelente"
  ELSE IF score_final >= 650 THEN "Bom"
  ELSE IF score_final >= 500 THEN "Regular"
  ELSE IF score_final >= 350 THEN "Atencao"
  ELSE "Critico"

\* A variant of ReceitaPositiva that lets a zero total through.
ReceitaNaoNegativa(receita) == receita >= 0

\* line 300: if total_receita > 0
ReceitaPositiva(receita) == receita > 0

\* line 316: if total_despesa > 0
DespesaPositiva(despesa) == despesa > 0

\* lines 293-352, given the totals of lines 297-298.  The divisions of lines
\* 301 and 317 raise ZeroDivisionError on a zero total.
ScoreDosTotais(historico_transacoes, receita, despesa) ==
  IF \/ ReceitaPositiva(receita) /\ receita = 0
     \/ DespesaPositiva(despesa) /\ despesa = 0
  THEN Raise("ZeroDivisionError", "division by zero")
  ELSE
    LET score_consistencia == 100
        score_relacao ==
          IF ReceitaPositiva(receita)
          THEN Clamp100(Frac(50 * receita + 50 * (receita - despesa), receita))
          ELSE Frac(30, 1)
        score_evolucao == 60
        score_controle ==
          IF DespesaPositiva(despesa)
          THEN Clamp100(Frac(100 * despesa
                             - 200 * gastos_superfluo(historico_transacoes),
                             despesa))
          ELSE Frac(70, 1)
        \* the weights 0.4, 0.3, 0.2, 0.1 times the factor 10 of line 327
        score_final ==
          FracInt(Frac((score_consistencia * 4 + score_evolucao * 2)
                         * score_relacao.d * score_controle.d
                       + 3 * score_relacao.n * score_controle.d
                       + score_controle.n * score_relacao.d,
                       score_relacao.d * score_controle.d))
        Min(a, b) == IF b < a THEN b ELSE a
        Max(a, b) == IF b > a THEN b ELSE a
    IN  Return(
          [score |-> Min(1000, Max(0, score_final)),
           nivel |-> Nivel(score_final),
           breakdown |-> [consistencia |-> score_consistencia,
                          relacao_receita_despesa |-> FracInt(score_relacao),
                          evolucao_saldo |-> score_evolucao,
                          controle_gastos |-> FracInt(score_controle)],
           dicas |-> gerar_dicas_score(score_final, score_relacao, score_controle)])

\* A variant of calcular_score_interno without the default of an empty
\* history: the totals of no transaction are scored like any others.
calcular_score_interno_sem_padrao(historico_transacoes) ==
  ScoreDosTotais(historico_transacoes,
                 total_receita(historico_transacoes),
                 total_despesa(historico_transacoes))

\* FinancialEngine.calcular_score_interno
calcular_score_interno(historico_transacoes) ==
  IF historico_transacoes = <<>>
  THEN Return(
         [score |-> 500, nivel |-> "Iniciante",
          breakdown |-> [consistencia |-> 50, relacao_receita_despesa |-> 50,
                         evolucao_saldo |-> 50, controle_gastos |-> 50],
          dicas |-> <<"comece_registrando">>])
  ELSE ScoreDosTotais(historico_transacoes,
                      total_receita(historico_transacoes),
                      total_despesa(historico_transacoes))

-----
(* Compound interest with contributions                                     *)

\* lines 101-106: the entry of a month in the trajectory
EvolucaoMes(mes, montante_atual, juros_mes, juros_acumulados) ==
  [mes              |-> mes,
   montante         |-> PyFloat(Quantize(montante_atual)),
   juros_mes        |-> PyFloat(Quantize(juros_mes)),
   juros_acumulados |-> PyFloat(Quantize(juros_acumulados))]

\* lines 101-106: the state after a month, given its interest and the
\* balance and the accumulated interest it leaves
JurosMesFechado(st, mes, juros_mes, montante_atual, juros_acumulados) ==
  [montante_atual   |-> montante_atual,
   juros_acumulados |-> juros_acumulados,
   evolucao         |-> Append(st.evolucao,
                               EvolucaoMes(mes, montante_atual, juros_mes,
                                           juros_acumulados))]

\* line 98: montante_atual = montante_atual + juros_mes + aporte_mensal;
\* line 99: juros_acumulados += juros_mes
JurosMes(st, aporte_mensal, mes, juros_mes) ==
  JurosMesFechado(st, mes, juros_mes,
                  DAdd(DAdd(st.montante_atual, juros_mes), aporte_mensal),
                  DAdd(st.juros_acumulados, juros_mes))

\* lines 96-106: the loop over range(mes, meses + 1) from the state st;
\* line 97: juros_mes = montante_atual * taxa_mensal
RECURSIVE Capitalizar(_, _, _, _, _)
Capitalizar(st, taxa_mensal, aporte_mensal, mes, meses) ==
  IF Eager(st) /\ mes > meses THEN st
  ELSE Capitalizar(JurosMes(st, aporte_mensal, mes,
                            DMul(st.montante_atual, taxa_mensal)),
                   taxa_mensal, aporte_mensal, mes + 1, meses)

\* lines 108-116: the report, the loop having ended in the state fim
JurosRelatorio(principal, taxa_mensal, meses, aporte_mensal, fim) ==
  Return([principal      |-> PyFloat(principal),
          taxa_mensal    |-> PyFloat(taxa_mensal),
          meses          |-> meses,
          aporte_mensal  |-> PyFloat(aporte_mensal),
          montante_final |-> PyFloat(Quantize(fim.montante_atual)),
          juros_totais   |-> PyFloat(Quantize(fim.juros_acumulados)),
          evolucao       |-> fim.evolucao])

\* lines 92-94: the state before the first month
JurosInicio(principal) ==
  [montante_atual |-> principal, juros_acumulados |-> DZero, evolucao |-> <<>>]

\* A variant of calcular_juros_compostos whose loop starts at month 0.
calcular_juros_compostos_de_zero(principal, taxa_mensal, meses, aporte_mensal) ==
  JurosRelatorio(principal, taxa_mensal, meses, aporte_mensal,
                 Capitalizar(JurosInicio(principal), taxa_mensal, aporte_mensal,
                             0, meses))

\* FinancialEngine.calcular_juros_compostos
calcular_juros_compostos(principal, taxa_mensal, meses, aporte_mensal) ==
  JurosRelatorio(principal, taxa_mensal, meses, aporte_mensal,
                 Capitalizar(JurosInicio(principal), taxa_mensal, aporte_mensal,
                             1, meses))

-----
(* The helpers of the routes.  They take Python numbers, ints or floats; a  *)
(* number is kept as the Decimal its text reads as, a float being given by  *)
(* the digits of its repr (the float 0.05 by 0.05, the float 1e-20 by       *)
(* 1E-20), with the mark of a float.                                        *)

Numero(float, v) == [float |-> float, v |-> v]

\* Decimal(str(x)), lines 471-473 and 517-520.  The repr of a float has a
\* fraction digit even when the float is whole ("5000.0"), unless it is in
\* the exponent form of 1e16 and above ("1e+18"); an int has none.
DecimalStr(x) ==
  IF x.float /\ x.v.e >= 0 /\ NDigits(x.v.c) + x.v.e <= 16
  THEN Dec(x.v.s, DCoefAt(x.v, -1), -1)
  ELSE x.v

\* strftime("%Y-%m-%d") on a day number, line 480, as <<year, month, day>>:
\* the day of the month counts from the first day with that month and year
AnoMesDia(dia) ==
  <<MesAno(dia)[2], MesAno(dia)[1],
    dia + 1 - SetMin({d \in (dia - 30)..dia : d >= 1 /\ MesAno(d) = MesAno(dia)})>>

\* lines 478-486: the report of a projection; dias_restantes is the whole
\* days from the second reading of the clock to the payoff date
LiberdadeRelatorio(proj, dias_restantes) ==
  [success                  |-> TRUE,
   data_liberdade           |-> AnoMesDia(proj.payoff_date),
   data_liberdade_formatada |-> MesAno(proj.payoff_date),
   meses_restantes          |-> proj.months_to_payoff,
   dias_restantes           |-> IF dias_restantes > 0 THEN dias_restantes ELSE 0,
   juros_total              |-> PyFloat(proj.total_interest_paid),
   total_a_pagar            |-> PyFloat(proj.total_amount_paid)]

\* lines 469-491, given the outcome r of the solver: `except ValueError`
\* turns a ValueError into a value and lets any other exception through.
\* The payoff date is the first reading of the clock plus whole days; line
\* 476 reads the clock again, and (payoff_date - datetime.now()).days loses
\* a day as soon as the clock has moved (passou) between the two readings.
Liberdade(r, agora, passou) ==
  IF Raised(r)
  THEN (IF r.exc = "ValueError"
        THEN Return([success |-> FALSE, error |-> r.msg])
        ELSE r)
  ELSE Return(LiberdadeRelatorio(r.value, r.value.payoff_date - agora
                                          - (IF passou THEN 1 ELSE 0)))

\* lines 470-474: the run of the solver on the three Decimals
LiberdadeFeita(divida, pagamento, taxa, agora, passou) ==
  LET r == calcular_data_quitacao(divida, pagamento, taxa, agora)
  IN  Feito(Liberdade(r, agora, passou), <<Chamada(divida, pagamento, taxa, r)>>)

\* calcular_liberdade_financeira
calcular_liberdade_financeira(divida, pagamento, taxa, agora, passou) ==
  LiberdadeFeita(DecimalStr(divida), DecimalStr(pagamento), DecimalStr(taxa),
                 agora, passou)

\* abs(x) of a Python number, line 520
PyAbs(x) == Numero(x.float, Dec(0, x.v.c, x.v.e))

\* lines 504-511: the analysis before any impact; impacto holds no report
\* (None) or one
AnaliseInicial(valor, tipo, saldo_atual, divida_total) ==
  [valor             |-> valor,
   tipo              |-> tipo,
   saldo_atual       |-> saldo_atual,
   status_financeiro |-> IF DSign(saldo_atual.v) >= 0 THEN "verde" ELSE "vermelho",
   tem_divida        |-> DSign(divida_total.v) > 0,
   impacto           |-> <<>>]

\* A variant of AnaliseComImpacto without the try of line 515: an error of
\* the impact analysis leaves the function.
AnaliseSemTry(analise, f) ==
  Feito(IF Raised(f.res) THEN f.res
        ELSE Return([analise EXCEPT !.impacto = <<f.res.value>>]),
        f.chamadas)

\* lines 515-524, given the outcome f of the impact analysis: the bare
\* except drops any error and leaves impacto as it was
AnaliseComImpacto(analise, f) ==
  Feito(Return([analise EXCEPT !.impacto = IF Raised(f.res) THEN <<>>
                                           ELSE <<f.res.value>>]),
        f.chamadas)

\* analisar_transacao_para_ia; agora is the clock read by the solver
analisar_transacao_para_ia(valor, tipo, saldo_atual, divida_total, pagamento_mensal, agora) ==
  IF tipo = "despesa" /\ DSign(divida_total.v) > 0 /\ DSign(pagamento_mensal.v) > 0
  THEN AnaliseComImpacto(
         AnaliseInicial(valor, tipo, saldo_atual, divida_total),
         calcular_impacto_gasto(DecimalStr(divida_total),
                                DecimalStr(pagamento_mensal), DecInt(5, -2),
                                DecimalStr(PyAbs(valor)), agora))
  ELSE Feito(Return(AnaliseInicial(valor, tipo, saldo_atual, divida_total)), <<>>)

-----
(* The AI service: AIService keeps the provider in use, None until          *)
(* initialize has chosen one.                                               *)

\* the length of each list of canned replies of FallbackProvider
NumRespostas == 4

\* FallbackProvider.generate: random.choice, the i-th reply, of the list
\* chosen by the debt and the balance of the context
FallbackGenerate(contexto, i) ==
  [classe |-> IF contexto.divida_total > 0 \/ contexto.saldo_atual < 0
              THEN "vermelho"
              ELSE IF contexto.saldo_atual > 0 THEN "verde"
              ELSE "neutra",
   i |-> i]

\* AIProvider, and the await of processar_mensagem on generate of each
Aguardando ==
  [ollama |-> "ollama.generate", groq |-> "groq.generate",
   fallback |-> "fallback.generate"]

-----
(* The engine in use: a caller takes one operation at a time with arguments *)
(* drawn from the sets below, reads the outcome, and may ask the solver     *)
(* again on the same debt and rate with another payment.  The clock         *)
(* advances between the calls.                                              *)

\* the last day the clock reaches
MaxNow == 2

\* the longest transaction history
MaxHist == 3

\* the largest amount of a transaction
MaxValor == 3

\* the longest trajectory asked of the growth projector
MaxMesesJuros == 3

\* data_inicio=None, line 123
Nenhuma == 0

Dividas ==
  { DecInt(0, 0), DecInt(-1, 0), DecInt(1, 0), DecInt(100, 0), DecInt(1000, 0),
    DecInt(5000, 0), DAddExact(DecInt(1, 15), DecInt(1, -2)) }

Pagamentos ==
  { DecInt(0, 0), DecInt(-5, 0), DecInt(1, 0), DecInt(50, 0), DecInt(60, 0),
    DecInt(500, 0), DecInt(1, 14), DecInt(1, 18),
    DAddExact(DecInt(60, 0), DecInt(1, -18)) }

Taxas ==
  { DecInt(-1, -2), DecInt(0, 0), DecInt(5, -2), DecInt(6, -2), DecInt(5, -1),
    DecInt(1, -20) }

DatasInicio == {Nenhuma, 1}

NovosGastos ==
  { DecInt(0, 0), DecInt(4, -3), DecInt(60, 0), DecInt(1000, 0), DecInt(-50, 0) }

Cenarios ==
  [ tipo  : {"vender_algo", "aumentar_pagamento", "renda_extra", "outro"},
    valor : { DecInt(0, 0), DecInt(60, 0), DecInt(5000, 0), DecInt(-600, 0) } ]

Principais ==
  { DecInt(0, 0), DecInt(1000, 0), DecInt(-1000, 0), DecInt(4, -3),
    DecInt(1000005, -3) }

TaxasJuros == { DecInt(0, 0), DecInt(1, -2), DecInt(-1, -2), DecInt(12345, -6) }

MesesJuros == (-1)..MaxMesesJuros

Aportes == { DecInt(0, 0), DecInt(100, 0), DecInt(-2000, 0), DecInt(5, -3) }

\* the numbers given to the helpers of the routes: the ints 5000 and 500 of
\* the dashboard, and floats
Numeros ==
  { Numero(FALSE, DecInt(5000, 0)), Numero(FALSE, DecInt(500, 0)),
    Numero(TRUE, DecInt(0, 0)), Numero(TRUE, DecInt(1, 0)),
    Numero(TRUE, DecInt(-60, 0)), Numero(TRUE, DecInt(60, 0)),
    Numero(TRUE, DecInt(100, 0)), Numero(TRUE, DecInt(1, 18)) }

\* the financial context of a message: the balance and the debt
Contextos == [saldo_atual : {-1, 0, 1}, divida_total : {0, 1}]

\* the type of a classified message
Tipos == {"despesa", "receita", "conversa"}

TaxasPy ==
  { Numero(TRUE, DecInt(5, -2)), Numero(TRUE, DecInt(0, 0)),
    Numero(TRUE, DecInt(5, -1)), Numero(TRUE, DecInt(1, -20)) }

\* the scores and the factors asked of the tips: the ends of the ranges and
\* both sides of each threshold
Scores == {0, 499, 500, 699, 700, 1000}

Fatores == {Frac(0, 1), Frac(99, 2), Frac(50, 1), Frac(100, 1)}

\* the most days asked of the coach message
MaxDias == 31

Dias == (-1)..MaxDias

CustosReais ==
  { DecInt(0, 0), DecInt(125, -3), DecInt(12473, -2), DecInt(-50, 0) }

Transacoes ==
  [ tipo      : {"receita", "despesa"},
    valor     : (-1)..MaxValor,
    categoria : {"Delivery", "mercado"} ]

Historicos == UNION {[1..n -> Transacoes] : n \in 0..MaxHist}

VARIABLES now, pc, op, args, ret, chamadas, anterior, current_provider

vars == <<now, pc, op, args, ret, chamadas, anterior, current_provider>>

Init ==
  /\ now = 1
  /\ pc = "idle"
  /\ op = ""
  /\ args = <<>>
  /\ ret = <<>>
  /\ chamadas = <<>>
  /\ anterior = <<>>
  /\ current_provider = "None"

\* line 143: data_inicio or datetime.now()
DataInicio(data_inicio) == IF data_inicio = Nenhuma THEN now ELSE data_inicio

\* the solver runs of an operation stay within the horizon followed
NoHorizonte(cs) == \A i \in 1..Len(cs) : cs[i].meses <= MaxMeses

\* A call of calcular_data_quitacao: the first of a caller, or a second one
\* with another payment on the debt, rate and start date of the first, whose
\* arguments and outcome are kept in anterior.
CalcularDataQuitacao ==
  /\ pc = "idle" \/ (pc = "done" /\ op = "calcular_data_quitacao" /\ anterior = <<>>)
  /\ \E divida \in Dividas, pagamento \in Pagamentos, taxa \in Taxas,
        data_inicio \in DatasInicio :
       /\ pc = "done" => /\ divida = args.divida
                         /\ taxa = args.taxa
                         /\ data_inicio = args.data_inicio
       /\ \E r \in {calcular_data_quitacao(divida, pagamento, taxa,
                                           DataInicio(data_inicio))} :
            /\ NoHorizonte(<<Chamada(divida, pagamento, taxa, r)>>)
            /\ ret' = r
            /\ chamadas' = <<Chamada(divida, pagamento, taxa, r)>>
       /\ args' = [divida |-> divida, pagamento |-> pagamento, taxa |-> taxa,
                   data_inicio |-> data_inicio]
  /\ anterior' = IF pc = "done" THEN <<[args |-> args, ret |-> ret]>> ELSE <<>>
  /\ op' = "calcular_data_quitacao"
  /\ pc' = "done"
  /\ UNCHANGED <<now, current_provider>>

\* A call of calcular_impacto_gasto
CalcularImpactoGasto ==
  /\ pc = "idle"
  /\ \E divida_atual \in Dividas, pagamento_mensal \in Pagamentos,
        taxa_mensal \in Taxas, novo_gasto \in NovosGastos :
       /\ \E f \in {calcular_impacto_gasto(divida_atual, pagamento_mensal,
                                           taxa_mensal, novo_gasto, now)} :
            /\ NoHorizonte(f.chamadas)
            /\ ret' = f.res
            /\ chamadas' = f.chamadas
       /\ args' = [divida_atual |-> divida_atual,
                   pagamento_mensal |-> pagamento_mensal,
                   taxa_mensal |-> taxa_mensal, novo_gasto |-> novo_gasto]
  /\ op' = "calcular_impacto_gasto"
  /\ pc' = "done"
  /\ UNCHANGED <<now, anterior, current_provider>>

\* A call of simular_cenario
SimularCenario ==
  /\ pc = "idle"
  /\ \E divida_atual \in Dividas, pagamento_atual \in Pagamentos,
        taxa_mensal \in Taxas, cenario \in Cenarios :
       /\ \E f \in {simular_cenario(divida_atual, pagamento_atual, taxa_mensal,
                                    cenario, now)} :
            /\ NoHorizonte(f.chamadas)
            /\ ret' = f.res
            /\ chamadas' = f.chamadas
       /\ args' = [divida_atual |-> divida_atual,
                   pagamento_atual |-> pagamento_atual,
                   taxa_mensal |-> taxa_mensal, cenario |-> cenario]
  /\ op' = "simular_cenario"
  /\ pc' = "done"
  /\ UNCHANGED <<now, anterior, current_provider>>

\* A call of calcular_juros_compostos
CalcularJurosCompostos ==
  /\ pc = "idle"
  /\ \E principal \in Principais, taxa_mensal \in TaxasJuros,
        meses \in MesesJuros, aporte_mensal \in Aportes :
       /\ ret' = calcular_juros_compostos(principal, taxa_mensal, meses,
                                          aporte_mensal)
       /\ args' = [principal |-> principal, taxa_mensal |-> taxa_mensal,
                   meses |-> meses, aporte_mensal |-> aporte_mensal]
  /\ op' = "calcular_juros_compostos"
  /\ pc' = "done"
  /\ chamadas' = <<>>
  /\ UNCHANGED <<now, anterior, current_provider>>

\* A call of calcular_score_interno
CalcularScoreInterno ==
  /\ pc = "idle"
  /\ \E historico_transacoes \in Historicos :
       /\ ret' = calcular_score_interno(historico_transacoes)
       /\ args' = [historico_transacoes |-> historico_transacoes]
  /\ op' = "calcular_score_interno"
  /\ pc' = "done"
  /\ chamadas' = <<>>
  /\ UNCHANGED <<now, anterior, current_provider>>

\* A call of _gerar_mensagem_impacto
GerarMensagemImpacto ==
  /\ pc = "idle"
  /\ \E gasto \in NovosGastos, dias \in Dias, custo_real \in CustosReais :
       /\ ret' = Return(gerar_mensagem_impacto(gasto, dias, custo_real))
       /\ args' = [gasto |-> gasto, dias |-> dias, custo_real |-> custo_real]
  /\ op' = "gerar_mensagem_impacto"
  /\ pc' = "done"
  /\ chamadas' = <<>>
  /\ UNCHANGED <<now, anterior, current_provider>>

\* A call of _gerar_dicas_score
GerarDicasScore ==
  /\ pc = "idle"
  /\ \E score \in Scores, relacao \in Fatores, controle \in Fatores :
       /\ ret' = Return(gerar_dicas_score(score, relacao, controle))
       /\ args' = [score |-> score, relacao |-> relacao, controle |-> controle]
  /\ op' = "gerar_dicas_score"
  /\ pc' = "done"
  /\ chamadas' = <<>>
  /\ UNCHANGED <<now, anterior, current_provider>>

\* A call of calcular_liberdade_financeira
CalcularLiberdadeFinanceira ==
  /\ pc = "idle"
  /\ \E divida \in Numeros, pagamento \in Numeros, taxa \in TaxasPy,
        passou \in BOOLEAN :
       /\ \E f \in {calcular_liberdade_financeira(divida, pagamento, taxa, now,
                                                  passou)} :
            /\ NoHorizonte(f.chamadas)
            /\ ret' = f.res
            /\ chamadas' = f.chamadas
       /\ args' = [divida |-> divida, pagamento |-> pagamento, taxa |-> taxa]
  /\ op' = "calcular_liberdade_financeira"
  /\ pc' = "done"
  /\ UNCHANGED <<now, anterior, current_provider>>

\* A call of analisar_transacao_para_ia
AnalisarTransacaoParaIA ==
  /\ pc = "idle"
  /\ \E valor \in Numeros, tipo \in Tipos,
        saldo_atual \in {x \in Numeros : x.float /\ DLe(x.v, DecInt(1, 0))},
        divida_total \in Numeros, pagamento_mensal \in Numeros :
       /\ \E f \in {analisar_transacao_para_ia(valor, tipo, saldo_atual,
                                               divida_total, pagamento_mensal,
                                               now)} :
            /\ NoHorizonte(f.chamadas)
            /\ ret' = f.res
            /\ chamadas' = f.chamadas
       /\ args' = [valor |-> valor, tipo |-> tipo, saldo_atual |-> saldo_atual,
                   divida_total |-> divida_total,
                   pagamento_mensal |-> pagamento_mensal]
  /\ op' = "analisar_transacao_para_ia"
  /\ pc' = "done"
  /\ UNCHANGED <<now, anterior, current_provider>>

\* AIService.initialize: the first provider available, in the order Ollama,
\* Groq, fallback; it may run while processar_mensagem awaits
Initialize ==
  /\ \E ollama_ok \in BOOLEAN, groq_ok \in BOOLEAN :
       current_provider' = IF ollama_ok THEN "ollama"
                           ELSE IF groq_ok THEN "groq"
                           ELSE "fallback"
  /\ UNCHANGED <<now, pc, op, args, ret, chamadas, anterior>>

\* AIService.processar_mensagem up to its await, lines 324-336: the provider
\* in use is asked, the fallback when it is neither Ollama nor Groq
ProcessarMensagem ==
  /\ pc = "idle"
  /\ \E contexto_financeiro \in Contextos :
       args' = [contexto_financeiro |-> contexto_financeiro]
  /\ pc' = IF current_provider \in {"ollama", "groq"}
           THEN Aguardando[current_provider]
           ELSE Aguardando.fallback
  /\ op' = "processar_mensagem"
  /\ UNCHANGED <<now, ret, chamadas, anterior, current_provider>>

\* AIService.processar_mensagem from its await on, lines 329-349: generate
\* returns a text or, for Ollama and Groq, fails (falha), and then the
\* fallback replies (lines 337-343); line 347 takes the value of the provider
\* in use at that time, which None does not have
ProcessarRetorna ==
  /\ pc \in {Aguardando[p] : p \in DOMAIN Aguardando}
  /\ \E falha \in BOOLEAN, i \in 1..NumRespostas :
       ret' = IF current_provider = "None"
              THEN Raise("AttributeError",
                         "'NoneType' object has no attribute 'value'")
              ELSE Return(
                [resposta  |-> IF pc = Aguardando.fallback \/ falha
                               THEN FallbackGenerate(args.contexto_financeiro, i)
                               ELSE [classe |-> "ia", i |-> 0],
                 provider  |-> current_provider,
                 timestamp |-> AnoMesDia(now)])
  /\ pc' = "done"
  /\ UNCHANGED <<now, op, args, chamadas, anterior, current_provider>>

\* The caller has read the outcome
Responder ==
  /\ pc = "done"
  /\ pc' = "idle"
  /\ op' = ""
  /\ args' = <<>>
  /\ ret' = <<>>
  /\ chamadas' = <<>>
  /\ anterior' = <<>>
  /\ UNCHANGED <<now, current_provider>>

\* A day passes
Tick ==
  /\ now < MaxNow
  /\ now' = now + 1
  /\ UNCHANGED <<pc, op, args, ret, chamadas, anterior, current_provider>>

Next ==
  \/ CalcularDataQuitacao
  \/ CalcularImpactoGasto
  \/ SimularCenario
  \/ CalcularScoreInterno
  \/ CalcularJurosCompostos
  \/ GerarMensagemImpacto
  \/ GerarDicasScore
  \/ CalcularLiberdadeFinanceira
  \/ AnalisarTransacaoParaIA
  \/ Initialize
  \/ ProcessarMensagem
  \/ ProcessarRetorna
  \/ Responder
  \/ Tick

Spec == Init /\ [][Next]_vars

(* The operations of the engine are static functions that share no state:  *)
(* what one of them returns does not depend on the calls made before.  Each *)
(* is also followed alone, with the caller's reading and the clock; so is   *)
(* the AI service, whose only state is the provider in use.                 *)

NextQuitacao == CalcularDataQuitacao \/ Responder \/ Tick
SpecQuitacao == Init /\ [][NextQuitacao]_vars

NextImpacto == CalcularImpactoGasto \/ Responder \/ Tick
SpecImpacto == Init /\ [][NextImpacto]_vars

NextCenario == SimularCenario \/ Responder \/ Tick
SpecCenario == Init /\ [][NextCenario]_vars

NextScore == CalcularScoreInterno \/ Responder \/ Tick
SpecScore == Init /\ [][NextScore]_vars

NextJuros == CalcularJurosCompostos \/ Responder \/ Tick
SpecJuros == Init /\ [][NextJuros]_vars

\* the tips, asked for by the score calculator or directly
NextDicas == CalcularScoreInterno \/ GerarDicasScore \/ Responder \/ Tick
SpecDicas == Init /\ [][NextDicas]_vars

NextLiberdade == CalcularLiberdadeFinanceira \/ Responder \/ Tick
SpecLiberdade == Init /\ [][NextLiberdade]_vars

NextAnalise == AnalisarTransacaoParaIA \/ Responder \/ Tick
SpecAnalise == Init /\ [][NextAnalise]_vars

NextIA == Initialize \/ ProcessarMensagem \/ ProcessarRetorna \/ Responder \/ Tick
SpecIA == Init /\ [][NextIA]_vars

NextMensagem == GerarMensagemImpacto \/ Responder \/ Tick
SpecMensagem == Init /\ [][NextMensagem]_vars

----------------------------------------------------------------------------
(* Properties of the amortization solver                                    *)

DAbs(a) == Dec(0, a.c, a.e)

Cent == DecInt(1, -2)

\* a call of the solver has ended
QuitacaoFeita == pc = "done" /\ op = "calcular_data_quitacao"

\* a call of the solver has returned a projection
QuitacaoAceita == QuitacaoFeita /\ ~Raised(ret)

\* ceil(divida / pagamento) over the reals, up to MaxMeses + 1
CeilExato(divida, pagamento) ==
  LET k == PagamentosInteiros(divida, pagamento, 0)
  IN  IF DSign(Resto(divida, pagamento, k)) = 0 THEN k ELSE k + 1

\* C1, as stated: in every projection the solver returns, total_amount_paid
\* less total_interest_paid is within one cent of the debt it was given.
C1_Conservation ==
  QuitacaoAceita =>
    DLe(DAbs(DAddExact(DAddExact(ret.value.total_amount_paid,
                                 DNeg(ret.value.total_interest_paid)),
                       DNeg(args.divida))),
        Cent)

\* C2, as stated: at rate 0 the solver returns ceil(debt / payment) months,
\* an interest of exactly 0 and a total paid equal to the debt.
C2_ZeroInterest ==
  (QuitacaoAceita /\ DSign(args.taxa) = 0) =>
    /\ ret.value.months_to_payoff = CeilExato(args.divida, args.pagamento)
    /\ DSign(ret.value.total_interest_paid) = 0
    /\ DCmp(ret.value.total_amount_paid, args.divida) = 0

\* C3, as stated: with rate, debt and payment all positive, the solver fails
\* with the "payment does not cover the interest" error exactly when
\* payment <= debt * rate, and returns a projection otherwise.
C3_InfeasiblePayment ==
  (/\ QuitacaoFeita
   /\ DGt(args.taxa, DZero)
   /\ DGt(args.divida, DZero)
   /\ DGt(args.pagamento, DZero)) =>
    IF DLe(args.pagamento, DMulExact(args.divida, args.taxa))
    THEN ret = Raise("ValueError", "Pagamento nao cobre os juros mensais")
    ELSE ~Raised(ret)

\* C4: whenever the debt or the payment is not positive the solver fails
\* with its validation error and returns no projection, at every rate.
C4_InvalidAmount ==
  (QuitacaoFeita /\ (DLe(args.divida, DZero) \/ DLe(args.pagamento, DZero))) =>
    ret = IF DLe(args.divida, DZero)
          THEN Raise("ValueError", "Divida deve ser maior que zero")
          ELSE Raise("ValueError", "Pagamento deve ser maior que zero")

\* the solver has refused a payment that is not positive on a positive debt
\* at a rate that is not positive
C4_Witness ==
  /\ QuitacaoFeita
  /\ DGt(args.divida, DZero)
  /\ DLe(args.pagamento, DZero)
  /\ DLe(args.taxa, DZero)
  /\ ret = Raise("ValueError", "Pagamento deve ser maior que zero")

\* two calls of the solver on one debt and rate have both returned
DuasAceitas ==
  /\ QuitacaoAceita
  /\ anterior # <<>>
  /\ ~Raised(anterior[1].ret)

\* C5: of two payments the solver accepts on one debt and rate, the greater
\* never takes more months.
C5_Monotonicity ==
  DuasAceitas =>
    /\ DLe(anterior[1].args.pagamento, args.pagamento)
         => ret.value.months_to_payoff <= anterior[1].ret.value.months_to_payoff
    /\ DLe(args.pagamento, anterior[1].args.pagamento)
         => anterior[1].ret.value.months_to_payoff <= ret.value.months_to_payoff

\* a greater payment has taken fewer months, at a positive rate
C5_Witness ==
  /\ DuasAceitas
  /\ DGt(args.taxa, DZero)
  /\ DLt(anterior[1].args.pagamento, args.pagamento)
  /\ ret.value.months_to_payoff < anterior[1].ret.value.months_to_payoff

----------------------------------------------------------------------------
(* Properties of the impact of an expense                                   *)

\* a call of the impact analyzer has returned a report
ImpactoRetornado ==
  pc = "done" /\ op = "calcular_impacto_gasto" /\ ~Raised(ret)

\* C6, as stated: at a positive rate and for an expense that is not
\* negative, every report has dias_adicionais >= 0 and custo_real >=
\* gasto_original.
C6_ImpactNonNegative ==
  (/\ ImpactoRetornado
   /\ DGt(args.taxa_mensal, DZero)
   /\ ~DLt(args.novo_gasto, DZero)) =>
    /\ ret.value.dias_adicionais >= 0
    /\ ~DLt(ret.value.custo_real, ret.value.gasto_original)

\* the impact analysis of debt 5000, payment 500, rate 0.05, expense 60
C7_Caso ==
  /\ pc = "done"
  /\ op = "calcular_impacto_gasto"
  /\ args = [divida_atual |-> DecInt(5000, 0), pagamento_mensal |-> DecInt(500, 0),
             taxa_mensal |-> DecInt(5, -2), novo_gasto |-> DecInt(60, 0)]

\* C7, amended: for debt 5000, payment 500, rate 0.05 and expense 60 the
\* report has no additional month and no additional day (both debts take 15
\* months) and a real cost of 124.73, above 60.
C7_ImpactExample ==
  C7_Caso =>
    /\ ~Raised(ret)
    /\ ret.value.meses_adicionais = 0
    /\ ret.value.dias_adicionais = 0
    /\ ret.value.custo_real = PyFloat(DecInt(12473, -2))
    /\ DGt(ret.value.custo_real, DecInt(60, 0))

\* the report of that analysis, both runs of the solver having taken 15 months
C7_Witness ==
  /\ C7_Caso
  /\ ~Raised(ret)
  /\ chamadas[1].meses = 15
  /\ chamadas[2].meses = 15

\* C7, as stated: for that input additional_days is a positive multiple of
\* 30 and real_cost > 60.
C7_ImpactExampleAsStated ==
  C7_Caso =>
    /\ ~Raised(ret)
    /\ ret.value.dias_adicionais > 0
    /\ ret.value.dias_adicionais % DiasPorMes = 0
    /\ DGt(ret.value.custo_real, DecInt(60, 0))

----------------------------------------------------------------------------
(* Properties of the scenarios                                              *)

\* a call of the simulator has ended, its baseline run having returned
CenarioComBase ==
  pc = "done" /\ op = "simular_cenario" /\ chamadas[1].exc = ""

Variantes == {"vender_algo", "aumentar_pagamento", "renda_extra"}

\* C8: a scenario of any of the three variants with valor 0, on a baseline
\* the solver accepts, returns a report that saves 0 months and 0 interest.
C8_ZeroScenario ==
  (/\ CenarioComBase
   /\ args.cenario.tipo \in Variantes
   /\ DSign(args.cenario.valor) = 0) =>
    /\ ~Raised(ret)
    /\ ret.value.economia.meses = 0
    /\ DSign(ret.value.economia.juros) = 0

\* a scenario with valor 0 has been simulated on a debt that takes months
\* and interest to pay
C8_Witness ==
  /\ CenarioComBase
  /\ args.cenario.tipo \in Variantes
  /\ DSign(args.cenario.valor) = 0
  /\ ~Raised(ret)
  /\ ret.value.atual.meses_para_quitar > 1
  /\ DSign(ret.value.atual.juros_total) = 1

\* a sale or an extra income of at least the debt, on an accepted baseline
C9_Caso ==
  /\ CenarioComBase
  /\ args.cenario.tipo \in {"vender_algo", "renda_extra"}
  /\ DLe(args.divida_atual, args.cenario.valor)

\* C9: when a sale or an extra income covers the debt, the solver has run
\* once only, the simulated side is that of a debt paid off (0 months,
\* "QUITADO!", 0 interest), and the savings are the baseline's months and
\* interest.
C9_PaidOff ==
  C9_Caso =>
    /\ ~Raised(ret)
    /\ Len(chamadas) = 1
    /\ DSign(ret.value.simulado.nova_divida) = 0
    /\ ret.value.simulado.meses_para_quitar = 0
    /\ ret.value.simulado.data_quitacao = "QUITADO!"
    /\ DSign(ret.value.simulado.juros_total) = 0
    /\ ret.value.economia.meses = chamadas[1].meses
    /\ ret.value.economia.meses = ret.value.atual.meses_para_quitar
    /\ ret.value.economia.juros = ret.value.atual.juros_total

\* a sale of exactly the debt, on a baseline of several months with interest
C9_Witness ==
  /\ C9_Caso
  /\ args.cenario.tipo = "vender_algo"
  /\ DCmp(args.divida_atual, args.cenario.valor) = 0
  /\ ~Raised(ret)
  /\ ret.value.economia.meses > 1
  /\ DSign(ret.value.economia.juros) = 1

----------------------------------------------------------------------------
(* Properties of the score                                                  *)

\* a call of the score calculator on a history that is not empty has ended
ScoreFeito ==
  /\ pc = "done"
  /\ op = "calcular_score_interno"
  /\ args.historico_transacoes # <<>>

\* C10: on every history that is not empty the score calculator returns,
\* with a score from 0 to 1000.
C10_ScoreBounded ==
  ScoreFeito =>
    /\ ~Raised(ret)
    /\ ret.value.score >= 0
    /\ ret.value.score <= 1000

\* a history as long as histories get, of expenses only or of incomes only,
\* has been scored
C10_Witness ==
  /\ ScoreFeito
  /\ ~Raised(ret)
  /\ Len(args.historico_transacoes) = MaxHist
  /\ \/ \A i \in 1..MaxHist :
          /\ args.historico_transacoes[i].tipo = "despesa"
          /\ args.historico_transacoes[i].valor > 0
     \/ \A i \in 1..MaxHist :
          /\ args.historico_transacoes[i].tipo = "receita"
          /\ args.historico_transacoes[i].valor > 0

\* a call of the score calculator on the empty history has ended
ScoreVazio ==
  /\ pc = "done"
  /\ op = "calcular_score_interno"
  /\ args.historico_transacoes = <<>>

\* C11: on the empty history the score calculator returns the fixed default:
\* score 500, the tier "Iniciante", the four factors at 50 and one tip, the
\* onboarding one.
C11_EmptyHistoryDefault ==
  ScoreVazio =>
    /\ ~Raised(ret)
    /\ ret.value.score = 500
    /\ ret.value.nivel = "Iniciante"
    /\ ret.value.breakdown = [consistencia |-> 50, relacao_receita_despesa |-> 50,
                              evolucao_saldo |-> 50, controle_gastos |-> 50]
    /\ Len(ret.value.dicas) = 1
    /\ ret.value.dicas[1] = "comece_registrando"

\* the empty history has been scored
C11_Witness == ScoreVazio /\ ~Raised(ret) /\ ret.value.score = 500

----------------------------------------------------------------------------
(* Properties of the growth projector                                       *)

\* a call of the growth projector has ended
JurosFeito == pc = "done" /\ op = "calcular_juros_compostos"

\* C12, as stated: a call of the growth projector with a negative number of
\* months ends with an error and returns no trajectory.
C12_InvalidMonthCount ==
  (JurosFeito /\ args.meses < 0) => Raised(ret)

----------------------------------------------------------------------------
(* Further properties of the scenarios, the solver and the score            *)

\* C13, as stated: a call of the simulator with a scenario whose kind is
\* none of vender_algo, aumentar_pagamento and renda_extra ends with an
\* error and returns no report.
C13_UnknownScenarioVariant ==
  (/\ pc = "done"
   /\ op = "simular_cenario"
   /\ args.cenario.tipo \notin Variantes) => Raised(ret)

\* C14, as stated: in every projection the solver returns, at any rate,
\* debt_total and monthly_payment are the debt and the payment it was given
\* rounded half up to cents, and total_interest_paid and total_amount_paid
\* are amounts in whole cents.
C14_CurrencyQuantized ==
  QuitacaoAceita =>
    /\ DCmp(ret.value.debt_total, Quantize(args.divida)) = 0
    /\ DCmp(ret.value.monthly_payment, Quantize(args.pagamento)) = 0
    /\ DCmp(ret.value.total_interest_paid,
            Quantize(ret.value.total_interest_paid)) = 0
    /\ DCmp(ret.value.total_amount_paid,
            Quantize(ret.value.total_amount_paid)) = 0

\* C15, as stated: two calls of the solver with the same debt, payment, rate
\* and start date, the start date left to its default included, end alike:
\* the same projection, payoff_date included, or the same error.
C15_Determinism ==
  (QuitacaoFeita /\ anterior # <<>> /\ anterior[1].args = args) =>
    anterior[1].ret = ret

\* a call of the growth projector on a number of months that is not negative
\* has returned
JurosRetornado == JurosFeito /\ ~Raised(ret) /\ args.meses >= 0

\* the trajectory has the entries of the months 1..meses, in this order
EvolucaoOrdenada ==
  /\ Len(ret.value.evolucao) = args.meses
  /\ \A i \in 1..Len(ret.value.evolucao) : ret.value.evolucao[i].mes = i

\* C16, amended: the trajectory has exactly meses entries, of the months
\* 1..meses in order; for meses = 0 it is empty, the total interest is 0 and
\* the final balance is the principal rounded half up to cents.
C16_Trajectory ==
  JurosRetornado =>
    /\ EvolucaoOrdenada
    /\ args.meses = 0 =>
         /\ ret.value.evolucao = <<>>
         /\ DSign(ret.value.juros_totais) = 0
         /\ ret.value.montante_final = PyFloat(Quantize(args.principal))

\* a trajectory as long as trajectories get has been returned, at a rate and
\* with a contribution that are not zero
C16_Witness ==
  /\ JurosRetornado
  /\ args.meses = MaxMesesJuros
  /\ DSign(args.taxa_mensal) = 1
  /\ DSign(args.aporte_mensal) = 1
  /\ Len(ret.value.evolucao) = MaxMesesJuros
  /\ ret.value.evolucao[MaxMesesJuros].mes = MaxMesesJuros

\* C16, as stated: the same, the final balance for meses = 0 being the
\* principal itself.
C16_TrajectoryAsStated ==
  JurosRetornado =>
    /\ EvolucaoOrdenada
    /\ args.meses = 0 =>
         /\ ret.value.evolucao = <<>>
         /\ DSign(ret.value.juros_totais) = 0
         /\ DCmp(ret.value.montante_final, args.principal) = 0

\* C17, as stated: in every trajectory the growth projector returns at a rate
\* that is not negative, juros_acumulados never decreases from one month to
\* the next.
C17_CumulativeInterestMonotone ==
  (JurosFeito /\ ~Raised(ret) /\ ~DLt(args.taxa_mensal, DZero)) =>
    \A i \in 1..(Len(ret.value.evolucao) - 1) :
      DLe(ret.value.evolucao[i].juros_acumulados,
          ret.value.evolucao[i + 1].juros_acumulados)

\* C18: on a history that is not empty, the tier returned is the one of the
\* score returned: "Excelente" from 800, "Bom" from 650, "Regular" from 500,
\* "Atencao" from 350, "Critico" below.
C18_TierThresholds ==
  (ScoreFeito /\ ~Raised(ret)) =>
    ret.value.nivel =
      CASE ret.value.score >= 800 -> "Excelente"
        [] ret.value.score >= 650 /\ ret.value.score < 800 -> "Bom"
        [] ret.value.score >= 500 /\ ret.value.score < 650 -> "Regular"
        [] ret.value.score >= 350 /\ ret.value.score < 500 -> "Atencao"
        [] ret.value.score < 350 -> "Critico"

\* a history has been scored between 650 and 700 and put in the tier "Bom"
C18_Witness ==
  /\ ScoreFeito
  /\ ~Raised(ret)
  /\ ret.value.score >= 650
  /\ ret.value.score < 700
  /\ ret.value.nivel = "Bom"

\* the weighted sum of lines 323-328 before int(), as a fraction:
\* (consistency*0.4 + ratio*0.3 + trend*0.2 + discipline*0.1) * 10 with
\* consistency = 100, trend = 60 and the ratio and the discipline of lines
\* 300-304 and 316-320
SomaPonderada(h) ==
  LET receita == total_receita(h)
      despesa == total_despesa(h)
      relacao == IF receita > 0
                 THEN Clamp100(Frac(50 * receita + 50 * (receita - despesa), receita))
                 ELSE Frac(30, 1)
      controle == IF despesa > 0
                  THEN Clamp100(Frac(100 * despesa - 200 * gastos_superfluo(h), despesa))
                  ELSE Frac(70, 1)
  IN  Frac((100 * 4 + 60 * 2) * relacao.d * controle.d
             + 3 * relacao.n * controle.d + controle.n * relacao.d,
           relacao.d * controle.d)

\* k is a whole number nearest to the fraction x (either one, at a tie)
Arredondado(x, k) == 2 * Abs(k * x.d - x.n) <= x.d

\* C19, as stated: on a history that is not empty the score is the weighted
\* sum rounded to the nearest whole number, kept within 0..1000.
C19_ScoreRounded ==
  (ScoreFeito /\ ~Raised(ret)) =>
    LET x == SomaPonderada(args.historico_transacoes)
    IN  \/ Arredondado(x, ret.value.score)
        \/ ret.value.score = 1000 /\ x.n >= 1000 * x.d
        \/ ret.value.score = 0 /\ x.n <= 0

\* a step in which a call of the solver returns a projection
QuitacaoRetorna ==
  /\ pc' = "done"
  /\ op' = "calcular_data_quitacao"
  /\ pc = "idle" \/ anterior' # anterior
  /\ ~Raised(ret')

\* C20: every projection the solver returns has months_to_payoff >= 0 and a
\* payoff_date of 30 * months_to_payoff days after the start date, the clock
\* of the call when none is given; the payoff date is then not before the
\* start date.
C20_PayoffDate ==
  [][QuitacaoRetorna =>
       /\ ret'.value.months_to_payoff >= 0
       /\ ret'.value.payoff_date =
            DataInicio(args'.data_inicio) + 30 * ret'.value.months_to_payoff
       /\ ret'.value.payoff_date >= DataInicio(args'.data_inicio)]_vars

\* the solver has returned, at a positive rate and with no start date given,
\* a projection of several months that ends 30 days a month after the clock
C20_Witness ==
  /\ QuitacaoAceita
  /\ args.data_inicio = Nenhuma
  /\ DGt(args.taxa, DZero)
  /\ ret.value.months_to_payoff > 1
  /\ ret.value.payoff_date = now + 30 * ret.value.months_to_payoff


----------------------------------------------------------------------------
(* Properties of the payoff horizon                                         *)

\* the balance left by n months of the simulation of lines 185-190
SaldoApos(divida, pagamento, taxa, n) ==
  Amortizar([saldo |-> divida, juros_total |-> DZero, total_pago |-> DZero],
            pagamento, taxa, n).saldo

\* the solver has returned a projection at a positive rate
QuitacaoComJuros == QuitacaoAceita /\ DGt(args.taxa, DZero)

\* C21, as stated: at a positive rate the months returned are the payoff
\* horizon of the month-by-month simulation: the balance is 0 after that
\* many months and still positive a month earlier, and the total paid does
\* not exceed that many full payments; for debt 5000, payment 500 and rate
\* 0.05 the solver returns between 10 and 19 months with interest above 0.
C21_PayoffHorizon ==
  /\ QuitacaoComJuros =>
       /\ DSign(SaldoApos(args.divida, args.pagamento, args.taxa,
                          ret.value.months_to_payoff)) = 0
       /\ ret.value.months_to_payoff >= 1 =>
            DGt(SaldoApos(args.divida, args.pagamento, args.taxa,
                          ret.value.months_to_payoff - 1), DZero)
       /\ DLe(ret.value.total_amount_paid,
              Quantize(DMulExact(DecInt(ret.value.months_to_payoff, 0),
                                 args.pagamento)))
  /\ (/\ QuitacaoFeita
      /\ args.divida = DecInt(5000, 0)
      /\ args.pagamento = DecInt(500, 0)
      /\ args.taxa = DecInt(5, -2)) =>
       /\ ~Raised(ret)
       /\ ret.value.months_to_payoff \in 10..19
       /\ DGt(ret.value.total_interest_paid, DZero)


----------------------------------------------------------------------------
(* Properties of the coach message                                          *)

\* a call of the coach message on a number of days that is not negative has
\* ended
MensagemFeita ==
  pc = "done" /\ op = "gerar_mensagem_impacto" /\ args.dias >= 0

\* the tier of the policy table for a number of days
TierDe(dias) ==
  IF dias = 0 THEN "safe"
  ELSE IF dias \in 1..3 THEN "ai_nao"
  ELSE IF dias \in 4..7 THEN "uma_semana"
  ELSE IF dias \in 8..30 THEN "eita"
  ELSE "serio"

\* C22: for every number of days >= 0 the coach message is of the tier of
\* that number alone, whatever the amounts: "no real impact" for 0, the mild
\* warning for 1..3, the moderate warning for 4..7, which cites the real
\* cost, the stronger warning for 8..30 and the severe one above 30.
C22_MessageTier ==
  MensagemFeita =>
    /\ ~Raised(ret)
    /\ ret.value.modelo = TierDe(args.dias)
    /\ ret.value.modelo = "uma_semana" =>
         ret.value.custo = Fmt2f(PyFloat(args.custo_real))

\* the moderate warning has been chosen for 4 days and a real cost of 0.125,
\* cited as 0.12
C22_Witness ==
  /\ MensagemFeita
  /\ args.dias = 4
  /\ args.custo_real = DecInt(125, -3)
  /\ ret.value.modelo = "uma_semana"
  /\ ret.value.custo = DecInt(12, -2)


----------------------------------------------------------------------------
(* Properties of the tips and of the factors of the score                   *)

\* a call of the score calculator has returned a report
ScoreRetornado == pc = "done" /\ op = "calcular_score_interno" /\ ~Raised(ret)

\* a direct call of the tips has ended
DicasFeitas == pc = "done" /\ op = "gerar_dicas_score"

\* the tips of a list, as a set
DicasDe(dicas) == {dicas[i] : i \in 1..Len(dicas)}

\* a list of tips has one tip for each rule that holds, in the order of the
\* rules, and the generic encouragement alone when none holds
DicasPelasRegras(dicas, baixo, relacao, controle, alto) ==
  /\ Len(dicas) >= 1
  /\ Len(dicas) = Cardinality(DicasDe(dicas))
  /\ "foco_total" \in DicasDe(dicas) <=> baixo
  /\ "despesas_maiores" \in DicasDe(dicas) <=> relacao
  /\ "muito_lazer" \in DicasDe(dicas) <=> controle
  /\ "mandou_bem" \in DicasDe(dicas) <=> alto
  /\ "caminho_certo" \in DicasDe(dicas)
       <=> ~(baixo \/ relacao \/ controle \/ alto)
  /\ DicasDe(dicas) \subseteq {"foco_total", "despesas_maiores", "muito_lazer",
                               "mandou_bem", "caminho_certo"}

\* C23: the list of tips is never empty.  Each rule adds its tip exactly
\* when it holds, whatever the others do (score < 500, income/expense factor
\* < 50, discipline factor < 50, score >= 700), and the generic
\* encouragement is there exactly when no rule holds: so it is for the tips
\* asked for directly and for those of every report on a history that is
\* not empty (where some rule always holds); the report on the empty
\* history has the one tip of its default.
C23_Tips ==
  /\ DicasFeitas =>
       /\ ~Raised(ret)
       /\ DicasPelasRegras(ret.value, args.score < 500,
                           FracLt(args.relacao, 50), FracLt(args.controle, 50),
                           args.score >= 700)
  /\ ScoreRetornado =>
       /\ Len(ret.value.dicas) >= 1
       /\ args.historico_transacoes # <<>> =>
            DicasPelasRegras(ret.value.dicas, ret.value.score < 500,
                             ret.value.breakdown.relacao_receita_despesa < 50,
                             ret.value.breakdown.controle_gastos < 50,
                             ret.value.score >= 700)

\* two rules have fired together in the report on a history
C23_Witness ==
  /\ ScoreRetornado
  /\ args.historico_transacoes # <<>>
  /\ ret.value.dicas = <<"despesas_maiores", "muito_lazer">>

\* no rule has fired and the generic encouragement is the only tip
C23_Generica ==
  /\ DicasFeitas
  /\ args.score \in 500..699
  /\ ret.value = <<"caminho_certo">>

\* line 298 restricted to the superfluous categories: the part of the
\* expenses that is discretionary
RECURSIVE DespesaSuperflua(_)
DespesaSuperflua(h) ==
  IF h = <<>> THEN 0
  ELSE (IF /\ Head(h).tipo = "despesa"
           /\ Lower(Head(h).categoria) \in categorias_superfluas
        THEN Abs(Head(h).valor) ELSE 0)
       + DespesaSuperflua(Tail(h))

\* the discipline factor of the claim on a history, as the report shows it
ControleEsperado(h) ==
  IF total_despesa(h) > 0
  THEN FracInt(Clamp100(Frac(100 * total_despesa(h) - 200 * DespesaSuperflua(h),
                             total_despesa(h))))
  ELSE 70

\* C24, as stated: the discipline factor is clamp(0, 100, 100 - 200 *
\* discretionary / expenses) when the expenses are above 0 and 70 when they
\* are 0, the discretionary spend being the part of the expenses in the
\* superfluous categories; an income of such a category does not change it.
C24_Discipline ==
  (ScoreRetornado /\ args.historico_transacoes # <<>>) =>
    ret.value.breakdown.controle_gastos
      = ControleEsperado(args.historico_transacoes)


----------------------------------------------------------------------------
(* Properties of the errors of the composite operations                     *)

\* the messages of the validations of lines 146-149 and 166-171
MensagensDeValidacao ==
  {"Divida deve ser maior que zero", "Pagamento deve ser maior que zero",
   "Pagamento nao cobre os juros mensais"}

\* an operation that runs the solver has ended with a validation error
ValidacaoFalhou ==
  /\ pc = "done"
  /\ op \in {"calcular_data_quitacao", "calcular_impacto_gasto", "simular_cenario"}
  /\ Raised(ret)
  /\ ret.exc = "ValueError"
  /\ ret.msg \in MensagensDeValidacao

\* C25, as stated: when an operation ends with a validation error, the
\* composite operations included, no turn of the month-by-month loop has
\* run in it, in any of its runs of the solver.
C25_ValidationFirst ==
  ValidacaoFalhou => \A i \in 1..Len(chamadas) : chamadas[i].voltas = 0


\* C26: on every history that is not empty the score is from 520 to 920
\* (consistency 100 and trend 60 are fixed, the two other factors are from 0
\* to 100), so the tier is never "Atencao" or "Critico" and the tip of a
\* score below 500 is never given.
C26_ScoreRange ==
  ScoreFeito =>
    /\ ~Raised(ret)
    /\ ret.value.score \in 520..920
    /\ ret.value.breakdown.consistencia = 100
    /\ ret.value.breakdown.evolucao_saldo = 60
    /\ ret.value.breakdown.relacao_receita_despesa \in 0..100
    /\ ret.value.breakdown.controle_gastos \in 0..100
    /\ ret.value.nivel \notin {"Atencao", "Critico"}
    /\ "foco_total" \notin DicasDe(ret.value.dicas)

\* the lowest score has been returned: both free factors at 0, on expenses
\* above twice the income and all discretionary
C26_Witness ==
  /\ ScoreFeito
  /\ ~Raised(ret)
  /\ ret.value.score = 520
  /\ ret.value.breakdown.relacao_receita_despesa = 0
  /\ ret.value.breakdown.controle_gastos = 0
  /\ total_receita(args.historico_transacoes) > 0


----------------------------------------------------------------------------
(* Properties of the days of an impact report                               *)

\* C27: in every report of the impact analysis dias_adicionais is 30 times
\* meses_adicionais and so never from 1 to 29; for an expense that is not
\* negative the coach message is the "no impact" one (0 days), the stronger
\* warning (exactly 30 days) or the severe one (more than 30), never the
\* mild or the moderate warning.
C27_DaysByMonths ==
  ImpactoRetornado =>
    /\ ret.value.dias_adicionais = 30 * ret.value.meses_adicionais
    /\ ret.value.dias_adicionais \notin 1..29
    /\ ~DLt(args.novo_gasto, DZero) =>
         /\ ret.value.mensagem_coach.modelo \in {"safe", "eita", "serio"}
         /\ ret.value.mensagem_coach.modelo = "safe"
              <=> ret.value.dias_adicionais = 0
         /\ ret.value.mensagem_coach.modelo = "eita"
              <=> ret.value.dias_adicionais = 30
         /\ ret.value.mensagem_coach.modelo = "serio"
              <=> ret.value.dias_adicionais > 30

\* an expense has added one month to the payoff: 30 days, the stronger
\* warning
C27_Witness ==
  /\ ImpactoRetornado
  /\ ~DLt(args.novo_gasto, DZero)
  /\ ret.value.meses_adicionais = 1
  /\ ret.value.dias_adicionais = 30
  /\ ret.value.mensagem_coach.modelo = "eita"


----------------------------------------------------------------------------
(* Properties of the helpers of the routes                                  *)

\* a call of calcular_liberdade_financeira has ended
LiberdadeChamada == pc = "done" /\ op = "calcular_liberdade_financeira"

\* the solver rejects the input: a debt or a payment that is not positive,
\* or, at a positive rate, a payment that does not cover the interest
Rejeitada(divida, pagamento, taxa) ==
  \/ DLe(divida, DZero)
  \/ DLe(pagamento, DZero)
  \/ DGt(taxa, DZero) /\ DLe(pagamento, DMul(divida, taxa))

\* C28, as stated: the wrapper never lets an error out; it returns success
\* False with the message exactly when the solver rejects the input, and
\* otherwise success True with the months of the solver and with
\* dias_restantes >= 0.
C28_Wrapper ==
  LiberdadeChamada =>
    /\ ~Raised(ret)
    /\ ret.value.success
         <=> ~Rejeitada(DecimalStr(args.divida), DecimalStr(args.pagamento),
                        DecimalStr(args.taxa))
    /\ ~ret.value.success => chamadas[1].exc = "ValueError"
    /\ ret.value.success =>
         /\ chamadas[1].exc = ""
         /\ ret.value.meses_restantes = chamadas[1].meses
         /\ ret.value.dias_restantes >= 0


\* a call of analisar_transacao_para_ia has ended
AnaliseFeita == pc = "done" /\ op = "analisar_transacao_para_ia"

\* a run of the solver made by the operation has raised
AlgumaFalha == \E i \in 1..Len(chamadas) : chamadas[i].exc # ""

\* C29: the analysis always returns; it has an impact only if the type is
\* "despesa", the total debt is above 0 and the monthly payment is above 0;
\* when the impact analysis fails the analysis has no impact, and in every
\* case the other fields are those of the arguments: valor, tipo,
\* saldo_atual, the status of the balance and whether there is a debt.
C29_Analysis ==
  AnaliseFeita =>
    /\ ~Raised(ret)
    /\ ret.value.impacto # <<>> =>
         /\ args.tipo = "despesa"
         /\ DGt(args.divida_total.v, DZero)
         /\ DGt(args.pagamento_mensal.v, DZero)
         /\ ~AlgumaFalha
    /\ AlgumaFalha => ret.value.impacto = <<>>
    /\ ret.value.valor = args.valor
    /\ ret.value.tipo = args.tipo
    /\ ret.value.saldo_atual = args.saldo_atual
    /\ ret.value.status_financeiro
         = (IF DLt(args.saldo_atual.v, DZero) THEN "vermelho" ELSE "verde")
    /\ ret.value.tem_divida = DGt(args.divida_total.v, DZero)

\* the impact analysis of an expense has failed on a payment that does not
\* cover the interest, and the analysis has come back without impact
C29_Witness ==
  /\ AnaliseFeita
  /\ ~Raised(ret)
  /\ args.tipo = "despesa"
  /\ Len(chamadas) = 1
  /\ chamadas[1].exc = "ValueError"
  /\ ret.value.impacto = <<>>
  /\ ret.value.tem_divida


----------------------------------------------------------------------------
(* Properties of the AI service                                             *)

\* processar_mensagem ends: its await is over and the caller has the outcome
MensagemProcessada ==
  /\ pc \in {Aguardando[p] : p \in DOMAIN Aguardando}
  /\ pc' = "done"

\* C30, as stated: whatever the order of the calls of initialize and
\* processar_mensagem, processar_mensagem does not raise and returns a
\* response: the reply of the fallback for the context when the fallback was
\* asked (it is the provider in use, or none has been chosen yet), that
\* reply or the text of the provider otherwise, with the provider in use at
\* that time in the field "provider".
C30_NeverRaises ==
  [][MensagemProcessada =>
       /\ ~Raised(ret')
       /\ ret'.value.provider = current_provider'
       /\ ret'.value.provider \in DOMAIN Aguardando
       /\ \/ ret'.value.resposta.classe
               = FallbackGenerate(args.contexto_financeiro, 1).classe
          \/ /\ pc # Aguardando.fallback
             /\ ret'.value.resposta.classe = "ia"]_vars

====
